---- MODULE Spec2Model ----
(***************************************************************************)
(* The items service of app/api/v1/items.py and its Redis cache client     *)
(* app/services/cache.py: the record store _items_db, the cache-aside      *)
(* handlers create_item / list_items / get_item / update_item /            *)
(* delete_item with every cache call as a suspension point of the          *)
(* single-threaded event loop, and CacheService with its error handling.   *)
(***************************************************************************)
EXTENDS Integers, Sequences, FiniteSets, TLC

VARIABLES
    phase,      \* lifespan: "init" (before startup), "serving", "failed"
    conn,       \* the singleton _cache_service: instance, the CacheService
                \* it refers to (0: None), made, the number constructed so
                \* far, and the fields [client, pool], TRUE when not None
    redis,      \* the key-value store: key -> [val, ttl], present keys only
    db,         \* keys of _items_db, in insertion order
    objs,       \* the dict object of every item ever created: id -> dict
    nextId,     \* number of uuid4 values drawn so far, plus one
    clock,      \* the latest time datetime.utcnow() has returned
    req,        \* per request slot: position in its handler and its locals
    running,    \* the slot holding the event loop between suspensions, or 0
    metrics,    \* the counters, histogram and gauge of app/api/metrics.py
    hist,       \* observations: outcomes of the cache calls, finished deletes
    api         \* outcome of the last direct call of a CacheService method

vars == <<phase, conn, redis, db, objs, nextId, clock, req, running, metrics,
          hist, api>>

----------------------------------------------------------------------------
(* Bounds of the model *)

MaxIds == 2
MaxOps == 4
NReq == 2
MaxClock == 2
MaxRaceIds == 1

Reqs == 1..NReq

----------------------------------------------------------------------------
(* Values *)

\* Python None and a present value; every field that may hold None is wrapped
None == <<>>
Just(v) == <<v>>

\* str(uuid.uuid4()): the n-th identifier drawn
UuidNames == <<"u1", "u2", "u3", "u4", "u5", "u6">>
Uuid(n) == UuidNames[n]
AllIds == {Uuid(n) : n \in 1..MaxIds}

\* (a prefix other than the source's)
CachePrefixEntity == "entity:"

CACHE_PREFIX == "item:"
CACHE_TTL == 3600

\* (a list key that is the key of the first entity)
ItemsListKeyOfAnItem == "item:u1"

ITEMS_LIST_KEY == "items:list"

\* (one key for the entities of every id)
_get_cache_key_shared(item_id) == CACHE_PREFIX

_get_cache_key(item_id) == CACHE_PREFIX \o item_id

\* datetime.isoformat() and its parse by the response model
IsoFormat(t) == <<"T", t>>
ParseIso(s) == s[2]

\* key order of the item dict built by create_item
FieldOrder == <<"id", "name", "description", "price", "quantity", "tags",
                "created_at", "updated_at">>
OptionalFields == {"name", "description", "price", "quantity", "tags"}

\* request bodies accepted by ItemCreate: the fields sent, with their values
CreateInputs ==
    { [name |-> Just("A"), price |-> Just(1)],
      [name |-> Just("B"), description |-> Just("d"), price |-> Just(2),
       quantity |-> Just(2), tags |-> Just(<<"t">>)] }

\* request bodies accepted by ItemUpdate: every field is Optional, so a
\* field sent as JSON null is accepted and counts as set
UpdateInputs ==
    { [price |-> Just(5)],
      [name |-> Just("C"), quantity |-> Just(3)],
      [name |-> None] }

\* ItemCreate.model_dump(): the fields sent, defaults for the others
ItemCreateDump(F) ==
    [name |-> F.name,
     description |-> IF "description" \in DOMAIN F THEN F.description ELSE None,
     price |-> F.price,
     quantity |-> IF "quantity" \in DOMAIN F THEN F.quantity ELSE Just(0),
     tags |-> IF "tags" \in DOMAIN F THEN F.tags ELSE Just(<<>>)]

\* item_data of create_item
NewItem(item_id, F, now) ==
    LET d == ItemCreateDump(F) IN
    [id |-> item_id, name |-> d.name, description |-> d.description,
     price |-> d.price, quantity |-> d.quantity, tags |-> d.tags,
     created_at |-> IsoFormat(now), updated_at |-> IsoFormat(now)]

\* (a replace: a field the body omits falls back to its default)
ReplaceFields(item, P) ==
    [k \in DOMAIN item |-> IF k \in DOMAIN P THEN P[k]
                           ELSE IF k = "quantity" THEN Just(0)
                           ELSE item[k]]

\* update_item: for field, value in model_dump(exclude_unset=True).items()
MergeFields(item, P) ==
    [k \in DOMAIN item |-> IF k \in DOMAIN P THEN P[k] ELSE item[k]]

\* (an update whose merge has not reached the stored dict)
MergedLater(item, P, now) == item

\* (an update that leaves updated_at as it was)
MergedKeepsStamp(item, P, now) == MergeFields(item, P)

\* update_item: the merge, then the refresh of updated_at
Merged(item, P, now) ==
    [MergeFields(item, P) EXCEPT !.updated_at = IsoFormat(now)]

\* ItemResponse(**item): name, price, quantity and tags may not be None
ResponseValid(item) ==
    /\ item.name # None
    /\ item.price # None
    /\ item.quantity # None
    /\ item.tags # None

ItemResponse(item) ==
    [id |-> item.id, name |-> item.name[1], description |-> item.description,
     price |-> item.price[1], quantity |-> item.quantity[1],
     tags |-> item.tags[1], created_at |-> ParseIso(item.created_at),
     updated_at |-> ParseIso(item.updated_at)]

----------------------------------------------------------------------------
(* JSON text, as CacheService writes and reads it *)

\* (a writer that loses the description)
JsonTokenDropsDescription(k, v) ==
    IF k = "description" THEN <<"null">>
    ELSE IF k \in OptionalFields
    THEN (IF v = None THEN <<"null">> ELSE <<"lit", v[1]>>)
    ELSE <<"lit", v>>

\* one member's value as JSON text, and back
JsonToken(k, v) ==
    IF k \in OptionalFields
    THEN (IF v = None THEN <<"null">> ELSE <<"lit", v[1]>>)
    ELSE <<"lit", v>>

JsonValue(k, tok) ==
    IF k \in OptionalFields
    THEN (IF tok[1] = "null" THEN None ELSE Just(tok[2]))
    ELSE tok[2]

\* a value json.dumps rejects with TypeError
Unserializable == [kind |-> "object"]
Serializable(value) == "kind" \notin DOMAIN value

\* json.dumps of an item dict: the members in key order
JsonDumps(value) ==
    [valid |-> TRUE,
     body |-> [i \in 1..Len(FieldOrder) |->
                 <<FieldOrder[i], JsonToken(FieldOrder[i], value[FieldOrder[i]])>>]]

\* json.loads of a text json.dumps wrote
JsonLoads(text) ==
    [k \in {text.body[i][1] : i \in 1..Len(text.body)} |->
        LET i == CHOOSE j \in 1..Len(text.body) : text.body[j][1] = k
        IN  JsonValue(k, text.body[i][2])]

\* a stored text that is no JSON document
Garbage == [valid |-> FALSE, body |-> <<>>]

----------------------------------------------------------------------------
(* CacheService: each method as a function of the client's state, the      *)
(* store's content and the outcome of the one Redis command it sends.      *)

\* outcome of a Redis command: done, or the exception redis-py raises
Faults == {"ok", "ConnectionError", "TimeoutError"}

\* the classes an exception is an instance of
Superclasses(exc) ==
    CASE exc = "ConnectionError" -> {"ConnectionError", "RedisError", "Exception"}
      [] exc = "TimeoutError" -> {"TimeoutError", "RedisError", "Exception"}
      [] exc = "JSONDecodeError" -> {"JSONDecodeError", "ValueError", "Exception"}
      [] exc = "TypeError" -> {"TypeError", "Exception"}
      [] exc = "ValueError" -> {"ValueError", "Exception"}
      [] exc = "Exception" -> {"Exception"}
      [] OTHER -> {}

\* (a get that catches RedisError alone)
GetHandledMissingDecode == {"RedisError"}

\* (a delete whose except clause covers nothing)
DeleteHandledNothing == {}

\* the except clauses of the methods
GetHandled == {"RedisError", "JSONDecodeError"}
SetHandled == {"RedisError", "TypeError"}
DeleteHandled == {"RedisError"}
ExistsHandled == {"RedisError"}
HealthHandled == {"RedisError"}

\* what a method hands its caller: a value, or an exception it did not catch
Returned(value, store) == [raised |-> "none", value |-> value, store |-> store]
Guarded(handled, exc, onError, store) ==
    IF Superclasses(exc) \cap handled # {}
    THEN Returned(onError, store)
    ELSE [raised |-> exc, value |-> onError, store |-> store]

\* (a health check that pings without testing for a client)
HealthCheckAssumesClient(c, store, fault) ==
    IF fault # "ok" THEN Guarded(HealthHandled, fault, FALSE, store)
    ELSE Returned(TRUE, store)

\* CacheService.health_check
HealthCheck(c, store, fault) ==
    IF ~c.client THEN Returned(FALSE, store)
    ELSE IF fault # "ok" THEN Guarded(HealthHandled, fault, FALSE, store)
    ELSE Returned(TRUE, store)

\* (a get that empties the store it reads)
CacheGetFlushes(c, store, key, fault) ==
    IF ~c.client THEN Returned(None, store) ELSE Returned(None, [k \in {} |-> 0])

\* CacheService.get
CacheGet(c, store, key, fault) ==
    IF ~c.client THEN Returned(None, store)
    ELSE IF fault # "ok" THEN Guarded(GetHandled, fault, None, store)
    ELSE IF key \notin DOMAIN store THEN Returned(None, store)
    ELSE IF ~store[key].val.valid
         THEN Guarded(GetHandled, "JSONDecodeError", None, store)
    ELSE Returned(Just(JsonLoads(store[key].val)), store)

\* (a set that always sends the plain SET)
CacheSetPlain(c, store, key, value, ttl, fault) ==
    IF ~c.client THEN Returned(FALSE, store)
    ELSE IF ~Serializable(value) THEN Guarded(SetHandled, "TypeError", FALSE, store)
    ELSE IF fault # "ok" THEN Guarded(SetHandled, fault, FALSE, store)
    ELSE Returned(TRUE,
                  (key :> [val |-> JsonDumps(value), ttl |-> 0])
                      @@ [k \in DOMAIN store \ {key} |-> store[k]])

\* CacheService.set; ttl 0 stands for a falsy ttl (None or 0): plain SET
CacheSet(c, store, key, value, ttl, fault) ==
    IF ~c.client THEN Returned(FALSE, store)
    ELSE IF ~Serializable(value) THEN Guarded(SetHandled, "TypeError", FALSE, store)
    ELSE IF fault # "ok" THEN Guarded(SetHandled, fault, FALSE, store)
    ELSE Returned(TRUE,
                  (key :> [val |-> JsonDumps(value), ttl |-> ttl])
                      @@ [k \in DOMAIN store \ {key} |-> store[k]])

\* CacheService.delete
CacheDelete(c, store, key, fault) ==
    IF ~c.client THEN Returned(FALSE, store)
    ELSE IF fault # "ok" THEN Guarded(DeleteHandled, fault, FALSE, store)
    ELSE Returned(TRUE, [k \in DOMAIN store \ {key} |-> store[k]])

\* CacheService.exists
CacheExists(c, store, key, fault) ==
    IF ~c.client THEN Returned(FALSE, store)
    ELSE IF fault # "ok" THEN Guarded(ExistsHandled, fault, FALSE, store)
    ELSE Returned(key \in DOMAIN store, store)

\* CacheService.connect: the pool and the client are assigned before the
\* ping, so a failed ping leaves both set; "no_pool" is from_url failing
ConnectOutcomes == {"ok", "ping_failed", "no_pool"}
Connect(c, outcome) ==
    IF outcome = "no_pool" THEN c ELSE [c EXCEPT !.client = TRUE, !.pool = TRUE]

\* what connect raises: the ping's RedisError, re-raised by its except
\* clause, or the error of from_url, which the clause does not cover
ConnectRaised(outcome) ==
    CASE outcome = "ping_failed" -> "ConnectionError"
      [] outcome = "no_pool" -> "ValueError"
      [] OTHER -> "none"

\* (a disconnect that closes the client and keeps the pool)
DisconnectKeepsPool(c) == [c EXCEPT !.client = FALSE]

\* CacheService.disconnect
Disconnect(c) == [c EXCEPT !.client = FALSE, !.pool = FALSE]

\* what disconnect closes: the client if there is one, then the pool if
\* there is one
Released(c) ==
    (IF c.client THEN <<"client">> ELSE <<>>) \o (IF c.pool THEN <<"pool">> ELSE <<>>)

\* (a get_cache_service that constructs a CacheService at every call)
get_cache_service_anew(c) ==
    [instance |-> c.made + 1, made |-> c.made + 1, client |-> FALSE, pool |-> FALSE]

\* get_cache_service: the singleton, constructed (CacheService.__init__:
\* no pool, no client) when the global is None
get_cache_service(c) ==
    IF c.instance = 0
    THEN [instance |-> c.made + 1, made |-> c.made + 1, client |-> FALSE, pool |-> FALSE]
    ELSE c

\* close_cache: the singleton, if there is one, is disconnected and the
\* global set to None
close_cache(c) ==
    IF c.instance # 0 THEN [Disconnect(c) EXCEPT !.instance = 0] ELSE c

----------------------------------------------------------------------------
(* State after construction *)

\* a free slot. Of a request: pc, its place in the handler; op, id, arg,
\* what was asked; snap, the dict handed to cache.set; cached, what
\* _get_from_cache returned; calls, the cache calls
\* and store reads made so far; status and body, the answer. Observations
\* taken on entry: found (id is in the store), before (the dict an update
\* finds there), seen (what
\* had happened to id), prev (the create answered right before, if this
\* reads its item)
Idle ==
    [pc |-> "idle", op |-> "none", id |-> "", arg |-> <<>>, snap |-> <<>>,
     cached |-> <<>>, calls |-> <<>>, found |-> FALSE, before |-> <<>>,
     seen |-> {}, prev |-> <<>>, status |-> 0, body |-> <<>>]

NoEntries == [k \in {} |-> 0]

Init ==
    /\ phase = "init"
    /\ conn = [instance |-> 0, made |-> 0, client |-> FALSE, pool |-> FALSE]
    /\ redis = NoEntries
    /\ db = <<>>
    /\ objs = NoEntries
    /\ nextId = 1
    /\ clock = 1
    /\ req = [r \in Reqs |-> Idle]
    /\ running = 0
    /\ metrics = [hits |-> 0, misses |-> 0, created |-> 0, deleted |-> 0,
                  requests |-> NoEntries, latency |-> NoEntries,
                  in_progress |-> NoEntries]
    /\ hist = [ok |-> FALSE, fail |-> FALSE, invalidated |-> {},
               deleted |-> {}, ops |-> 0]
    /\ api = [op |-> "none", client |-> FALSE, met |-> "none",
              raised |-> "none", value |-> FALSE]

----------------------------------------------------------------------------
(* Helpers of the handlers *)

\* (an existence test that also accepts an id the cache holds)
InDbOrCached(item_id) ==
    \/ \E i \in 1..Len(db) : db[i] = item_id
    \/ _get_cache_key(item_id) \in DOMAIN redis

InDb(item_id) == \E i \in 1..Len(db) : db[i] = item_id
Quiet == \A r \in Reqs : req[r].pc \in {"idle", "done"}

\* a handler may be entered: the application serves, the event loop is free
\* (a slot names a running coroutine: a request takes the first free one)
CanStart(r) ==
    /\ phase = "serving"
    /\ running = 0
    /\ req[r].pc \in {"idle", "done"}
    /\ \A r2 \in 1..(r - 1) : req[r2].pc \notin {"idle", "done"}
    /\ hist.ops < MaxOps

\* a suspended handler may resume: the loop is free or already its own
CanResume(r, at) ==
    /\ req[r].pc = at
    /\ running \in {0, r}

\* a cache call suspends only when the client exists; without a client the
\* method returns at once and the handler keeps the event loop
Holds(r) == IF conn.client THEN 0 ELSE r

Call(op, key, ttl, val) == [op |-> op, key |-> key, ttl |-> ttl, val |-> val]

\* what the run has seen of the cache: a call that did its work, a call
\* that returned absent / false because of a failure or a missing client
Noted(h, worked) ==
    IF worked THEN [h EXCEPT !.ok = TRUE] ELSE [h EXCEPT !.fail = TRUE]

\* return ItemResponse(**item): 500 when the response model rejects item
Respond(q, code, item) ==
    IF ResponseValid(item)
    THEN [q EXCEPT !.pc = "done", !.status = code, !.body = ItemResponse(item)]
    ELSE [q EXCEPT !.pc = "done", !.status = 500, !.body = <<>>]

\* raise HTTPException(404), an exception escaping the handler (500), 204
Fail(q, code) == [q EXCEPT !.pc = "done", !.status = code, !.body = <<>>]

\* the slots once request q has entered slot r: an answered request's
\* coroutine is gone, its slot is free again
Entered(r, q) ==
    [r2 \in Reqs |-> IF r2 = r THEN q
                     ELSE IF req[r2].pc = "done" THEN Idle ELSE req[r2]]

Begin(r, op, item_id, arg) ==
    [Idle EXCEPT !.op = op, !.id = item_id, !.arg = arg,
                 !.found = InDb(item_id),
                 !.before = IF op = "update" /\ InDb(item_id) THEN objs[item_id] ELSE <<>>,
                 !.seen = {k \in {"invalidated", "deleted"} : item_id \in hist[k]},
                 !.prev = IF /\ op = "get"
                             /\ req[r].pc = "done"
                             /\ req[r].op = "create"
                             /\ req[r].id = item_id
                          THEN <<[arg |-> req[r].arg, status |-> req[r].status,
                                  body |-> req[r].body]>>
                          ELSE <<>>]

\* datetime.utcnow(): a time not before the latest one returned
Now == clock..MaxClock

\* the call reached the store and the store answered
Reached(fault) == conn.client /\ fault = "ok"

\* (a delete that removes nothing)
RemoveNothing(seq, x) == seq

Remove(seq, x) == SelectSeq(seq, LAMBDA y : y # x)

----------------------------------------------------------------------------
(* Lifespan (app/main.py) *)

\* (a lifespan that tolerates RedisError alone)
LifespanHandledRedisOnly == {"RedisError"}

\* the except clause around init_cache()
LifespanHandled == {"Exception"}

\* startup: init_cache() (get_cache_service, then connect), any exception is logged and the application
\* serves; an exception the clause did not cover would end the startup
Startup(outcome) ==
    /\ phase = "init"
    /\ phase' = IF \/ ConnectRaised(outcome) = "none"
                   \/ Superclasses(ConnectRaised(outcome)) \cap LifespanHandled # {}
                THEN "serving" ELSE "failed"
    /\ conn' = Connect(get_cache_service(conn), outcome)
    /\ UNCHANGED <<redis, db, objs, nextId, clock, req, running, metrics, hist, api>>

----------------------------------------------------------------------------
(* Environment *)

\* the store drops an entry whose TTL has run out
Expire(key) ==
    /\ key \in DOMAIN redis
    /\ redis[key].ttl > 0
    /\ redis' = [k \in DOMAIN redis \ {key} |-> redis[k]]
    /\ UNCHANGED <<phase, conn, db, objs, nextId, clock, req, running, metrics, hist, api>>

----------------------------------------------------------------------------
(* create_item *)

CreateStart(r, F) ==
    /\ CanStart(r)
    /\ nextId <= MaxIds
    /\ \E now \in Now :
       LET item_id == Uuid(nextId)
           item_data == NewItem(item_id, F, now)
       IN  /\ clock' = now
           /\ objs' = (item_id :> item_data) @@ objs
           /\ db' = Append(db, item_id)
           /\ req' = Entered(r,
                  [Begin(r, "create", item_id, F) EXCEPT
                      !.pc = "create_set", !.snap = item_data,
                      !.calls = <<Call("set", _get_cache_key(item_id), CACHE_TTL, item_data)>>])
    /\ nextId' = nextId + 1
    /\ running' = Holds(r)
    /\ hist' = [hist EXCEPT !.ops = @ + 1]
    /\ conn' = get_cache_service(conn)
    /\ UNCHANGED <<phase, redis, metrics, api>>

\* _set_in_cache returns; cache.delete(ITEMS_LIST_KEY) is called
CreateSetDone(r) ==
    /\ CanResume(r, "create_set")
    /\ \E fault \in Faults :
         LET q == req[r]
             res == CacheSet(conn, redis, _get_cache_key(q.id), q.snap, CACHE_TTL, fault)
         IN  /\ redis' = res.store
             /\ hist' = Noted(hist, Reached(fault))
             /\ IF res.raised # "none"
                THEN /\ req' = [req EXCEPT ![r] = Fail(q, 500)]
                     /\ running' = 0
                ELSE /\ req' = [req EXCEPT ![r].pc = "create_del",
                                           ![r].calls = Append(@, Call("delete", ITEMS_LIST_KEY, 0, <<>>))]
                     /\ running' = Holds(r)
    /\ UNCHANGED <<phase, conn, db, objs, nextId, clock, metrics, api>>

\* (a hook that counts nothing)
RecordNothing(m) == m

\* record_item_created(), record_item_deleted(): ITEMS_CREATED.inc(),
\* ITEMS_DELETED.inc()
record_item_created(m) == [m EXCEPT !.created = @ + 1]
record_item_deleted(m) == [m EXCEPT !.deleted = @ + 1]

\* the list key's delete returns; record_item_created(); the response
CreateDelDone(r) ==
    /\ CanResume(r, "create_del")
    /\ \E fault \in Faults :
         LET q == req[r]
             res == CacheDelete(conn, redis, ITEMS_LIST_KEY, fault)
         IN  /\ redis' = res.store
             /\ hist' = Noted(hist, Reached(fault))
             /\ IF res.raised # "none"
                THEN /\ req' = [req EXCEPT ![r] = Fail(q, 500)]
                     /\ UNCHANGED metrics
                ELSE /\ req' = [req EXCEPT ![r] = Respond(q, 201, objs[q.id])]
                     /\ metrics' = record_item_created(metrics)
    /\ running' = 0
    /\ UNCHANGED <<phase, conn, db, objs, nextId, clock, api>>

----------------------------------------------------------------------------
(* list_items *)

MaxPage == 2
MaxPageSize == 2

Min(a, b) == IF a < b THEN a ELSE b

\* all_items[start:end]
Slice(seq, start, end) ==
    IF start >= Len(seq) THEN <<>> ELSE SubSeq(seq, start + 1, Min(end, Len(seq)))

TotalPages(total, page_size) ==
    IF total > 0 THEN (total + page_size - 1) \div page_size ELSE 1

ListItems(r, page, page_size) ==
    /\ CanStart(r)
    /\ LET all_items == [i \in 1..Len(db) |-> objs[db[i]]]
           total == Len(all_items)
           start == (page - 1) * page_size
           page_items == Slice(all_items, start, start + page_size)
           q == Begin(r, "list", "", [page |-> page, page_size |-> page_size])
       IN  req' = Entered(r,
               IF \A i \in 1..Len(page_items) : ResponseValid(page_items[i])
               THEN [q EXCEPT !.pc = "done", !.status = 200,
                       !.body = [items |-> [i \in 1..Len(page_items) |-> ItemResponse(page_items[i])],
                                 total |-> total, page |-> page, page_size |-> page_size,
                                 total_pages |-> TotalPages(total, page_size)]]
               ELSE Fail(q, 500))
    /\ hist' = [hist EXCEPT !.ops = @ + 1]
    /\ UNCHANGED <<phase, conn, redis, db, objs, nextId, clock, running, metrics, api>>

----------------------------------------------------------------------------
(* get_item *)

GetStart(r, item_id) ==
    /\ CanStart(r)
    /\ req' = Entered(r,
           [Begin(r, "get", item_id, <<>>) EXCEPT
               !.pc = "get_get",
               !.calls = <<Call("get", _get_cache_key(item_id), 0, <<>>)>>])
    /\ running' = Holds(r)
    /\ hist' = [hist EXCEPT !.ops = @ + 1]
    /\ conn' = get_cache_service(conn)
    /\ UNCHANGED <<phase, redis, db, objs, nextId, clock, metrics, api>>

\* the branch of get_item taken on a truthy result of _get_from_cache
OnHit(q, cached) == Respond(q, 200, cached)

\* (a miss path that issues its cache set a second time)
OnMissSetsTwice(q) ==
    IF ~InDb(q.id)
    THEN [Fail(q, 404) EXCEPT !.calls = Append(@, Call("db", q.id, 0, <<>>))]
    ELSE [q EXCEPT !.pc = "get_set", !.snap = objs[q.id],
                   !.calls = @ \o <<Call("db", q.id, 0, <<>>),
                                    Call("set", _get_cache_key(q.id), CACHE_TTL, objs[q.id]),
                                    Call("set", _get_cache_key(q.id), CACHE_TTL, objs[q.id])>>]

\* get_item's lines after a miss, up to the call of _set_in_cache
OnMiss(q) ==
    IF ~InDb(q.id)
    THEN [Fail(q, 404) EXCEPT !.calls = Append(@, Call("db", q.id, 0, <<>>))]
    ELSE [q EXCEPT !.pc = "get_set", !.snap = objs[q.id],
                   !.calls = @ \o <<Call("db", q.id, 0, <<>>),
                                    Call("set", _get_cache_key(q.id), CACHE_TTL, objs[q.id])>>]

\* cache.get returns in _get_from_cache; the hit or miss is recorded
GetGetDone(r) ==
    /\ CanResume(r, "get_get")
    /\ \E fault \in Faults :
         LET q == req[r]
             key == _get_cache_key(q.id)
             res == CacheGet(conn, redis, key, fault)
             got == [q EXCEPT !.cached = res.value]
             next == IF res.raised # "none" THEN Fail(q, 500)
                     ELSE IF res.value # None THEN OnHit(got, res.value[1])
                     ELSE OnMiss(got)
         IN  /\ redis' = res.store
             /\ hist' = Noted(hist, Reached(fault) /\ res.raised = "none"
                                    /\ (key \in DOMAIN redis => redis[key].val.valid))
             /\ req' = [req EXCEPT ![r] = next]
             /\ running' = IF next.pc = "done" THEN 0 ELSE Holds(r)
             /\ metrics' =
                  IF res.raised # "none" THEN metrics
                  ELSE IF res.value # None THEN [metrics EXCEPT !.hits = @ + 1]
                  ELSE [metrics EXCEPT !.misses = @ + 1]
    /\ UNCHANGED <<phase, conn, db, objs, nextId, clock, api>>

\* _set_in_cache returns; the response is built from the dict read before
GetSetDone(r) ==
    /\ CanResume(r, "get_set")
    /\ \E fault \in Faults :
         LET q == req[r]
             res == CacheSet(conn, redis, _get_cache_key(q.id), q.snap, CACHE_TTL, fault)
         IN  /\ redis' = res.store
             /\ hist' = Noted(hist, Reached(fault))
             /\ req' = [req EXCEPT ![r] =
                    IF res.raised # "none" THEN Fail(q, 500)
                    ELSE Respond(q, 200, objs[q.id])]
    /\ running' = 0
    /\ UNCHANGED <<phase, conn, db, objs, nextId, clock, metrics, api>>

----------------------------------------------------------------------------
(* update_item *)

UpdateStart(r, item_id, P) ==
    /\ CanStart(r)
    /\ hist' = [hist EXCEPT !.ops = @ + 1]
    /\ IF ~InDb(item_id)
       THEN /\ req' = Entered(r, Fail(Begin(r, "update", item_id, P), 404))
            /\ UNCHANGED <<objs, running, clock>>
       ELSE \E now \in Now :
            LET item_data == Merged(objs[item_id], P, now)
            IN  /\ clock' = now
                /\ objs' = [objs EXCEPT ![item_id] = item_data]
                /\ req' = Entered(r,
                       [Begin(r, "update", item_id, P) EXCEPT
                           !.pc = "update_set", !.snap = item_data,
                           !.calls = <<Call("set", _get_cache_key(item_id), CACHE_TTL, item_data)>>])
                /\ running' = Holds(r)
    /\ conn' = IF InDb(item_id) THEN get_cache_service(conn) ELSE conn
    /\ UNCHANGED <<phase, redis, db, nextId, metrics, api>>

UpdateSetDone(r) ==
    /\ CanResume(r, "update_set")
    /\ \E fault \in Faults :
         LET q == req[r]
             res == CacheSet(conn, redis, _get_cache_key(q.id), q.snap, CACHE_TTL, fault)
         IN  /\ redis' = res.store
             /\ hist' = Noted(hist, Reached(fault))
             /\ IF res.raised # "none"
                THEN /\ req' = [req EXCEPT ![r] = Fail(q, 500)]
                     /\ running' = 0
                ELSE /\ req' = [req EXCEPT ![r].pc = "update_del",
                                           ![r].calls = Append(@, Call("delete", ITEMS_LIST_KEY, 0, <<>>))]
                     /\ running' = Holds(r)
    /\ UNCHANGED <<phase, conn, db, objs, nextId, clock, metrics, api>>

UpdateDelDone(r) ==
    /\ CanResume(r, "update_del")
    /\ \E fault \in Faults :
         LET q == req[r]
             res == CacheDelete(conn, redis, ITEMS_LIST_KEY, fault)
         IN  /\ redis' = res.store
             /\ hist' = Noted(hist, Reached(fault))
             /\ req' = [req EXCEPT ![r] =
                    IF res.raised # "none" THEN Fail(q, 500)
                    ELSE Respond(q, 200, objs[q.id])]
    /\ running' = 0
    /\ UNCHANGED <<phase, conn, db, objs, nextId, clock, metrics, api>>

----------------------------------------------------------------------------
(* delete_item *)

DeleteStart(r, item_id) ==
    /\ CanStart(r)
    /\ hist' = [hist EXCEPT !.ops = @ + 1]
    /\ IF ~InDb(item_id)
       THEN /\ req' = Entered(r, Fail(Begin(r, "delete", item_id, <<>>), 404))
            /\ UNCHANGED <<db, running>>
       ELSE /\ db' = Remove(db, item_id)
            /\ req' = Entered(r,
                   [Begin(r, "delete", item_id, <<>>) EXCEPT
                       !.pc = "delete_item",
                       !.calls = <<Call("delete", _get_cache_key(item_id), 0, <<>>)>>])
            /\ running' = Holds(r)
    /\ conn' = IF InDb(item_id) THEN get_cache_service(conn) ELSE conn
    /\ UNCHANGED <<phase, redis, objs, nextId, clock, metrics, api>>

\* _delete_from_cache: the item key's delete returns, the list key's is called
DeleteItemDone(r) ==
    /\ CanResume(r, "delete_item")
    /\ \E fault \in Faults :
         LET q == req[r]
             res == CacheDelete(conn, redis, _get_cache_key(q.id), fault)
         IN  /\ redis' = res.store
             /\ hist' = [Noted(hist, Reached(fault)) EXCEPT
                            !.invalidated = IF res.raised = "none" /\ res.value
                                            THEN @ \cup {q.id} ELSE @]
             /\ IF res.raised # "none"
                THEN /\ req' = [req EXCEPT ![r] = Fail(q, 500)]
                     /\ running' = 0
                ELSE /\ req' = [req EXCEPT ![r].pc = "delete_list",
                                           ![r].calls = Append(@, Call("delete", ITEMS_LIST_KEY, 0, <<>>))]
                     /\ running' = Holds(r)
    /\ UNCHANGED <<phase, conn, db, objs, nextId, clock, metrics, api>>

\* the list key's delete returns; record_item_deleted(); 204
DeleteListDone(r) ==
    /\ CanResume(r, "delete_list")
    /\ \E fault \in Faults :
         LET q == req[r]
             res == CacheDelete(conn, redis, ITEMS_LIST_KEY, fault)
         IN  /\ redis' = res.store
             /\ IF res.raised # "none"
                THEN /\ req' = [req EXCEPT ![r] = Fail(q, 500)]
                     /\ hist' = Noted(hist, Reached(fault))
                     /\ UNCHANGED metrics
                ELSE /\ req' = [req EXCEPT ![r] = Fail(q, 204)]
                     /\ hist' = [Noted(hist, Reached(fault)) EXCEPT !.deleted = @ \cup {q.id}]
                     /\ metrics' = record_item_deleted(metrics)
    /\ running' = 0
    /\ UNCHANGED <<phase, conn, db, objs, nextId, clock, api>>

----------------------------------------------------------------------------
(* The application: requests interleave at their cache calls *)

Resume(r) ==
    \/ CreateSetDone(r) \/ CreateDelDone(r)
    \/ GetGetDone(r) \/ GetSetDone(r)
    \/ UpdateSetDone(r) \/ UpdateDelDone(r)
    \/ DeleteItemDone(r) \/ DeleteListDone(r)

Enter(r) ==
    \/ \E F \in CreateInputs : CreateStart(r, F)
    \/ \E page \in 1..MaxPage, page_size \in 1..MaxPageSize : ListItems(r, page, page_size)
    \/ \E item_id \in AllIds : GetStart(r, item_id)
    \/ \E item_id \in AllIds, P \in UpdateInputs : UpdateStart(r, item_id, P)
    \/ \E item_id \in AllIds : DeleteStart(r, item_id)

Environment ==
    \/ \E outcome \in ConnectOutcomes : Startup(outcome)
    \/ \E key \in DOMAIN redis : Expire(key)

\* interleaved requests, on at most MaxRaceIds created items
Next ==
    \/ \E r \in Reqs : Enter(r) /\ nextId' <= MaxRaceIds + 1
    \/ \E r \in Reqs : Resume(r)
    \/ Environment

Spec == Init /\ [][Next]_vars

\* one request at a time: a request is entered only when none is in flight
SeqNext ==
    \/ \E r \in Reqs : Quiet /\ Enter(r)
    \/ \E r \in Reqs : Resume(r)
    \/ Environment

SeqSpec == Init /\ [][SeqNext]_vars

----------------------------------------------------------------------------
(* CacheService called directly: every method, in every state of the      *)
(* client, on every content of the store and every outcome of the command *)

ApiKeys == {_get_cache_key(item_id) : item_id \in AllIds} \cup {ITEMS_LIST_KEY}
ApiValues == {NewItem(Uuid(1), F, 1) : F \in CreateInputs} \cup {Unserializable}
ApiTtls == {0, CACHE_TTL}

\* the exception met inside the method, "none" when the body ran through
Met(c, failed, exc) == IF c.client /\ failed THEN exc ELSE "none"

Answer(op, met, res) ==
    /\ api' = [op |-> op, client |-> conn.client, met |-> met,
               raised |-> res.raised, value |-> res.value]
    /\ redis' = res.store
    /\ UNCHANGED <<phase, conn, db, objs, nextId, clock, req, running, metrics, hist>>

ApiConnect(outcome) ==
    /\ conn' = Connect(conn, outcome)
    /\ UNCHANGED <<phase, redis, db, objs, nextId, clock, req, running, metrics, hist, api>>

\* the record of a disconnect: the client's state on entry, what the call
\* closed, and what the disconnect right before it closed (prior)
ApiDisconnect ==
    /\ conn' = Disconnect(conn)
    /\ api' = [op |-> "disconnect", client |-> conn.client, met |-> "none",
               raised |-> "none",
               value |-> [pool |-> conn.pool, released |-> Released(conn),
                          prior |-> IF api.op = "disconnect"
                                    THEN api.value.released ELSE <<>>]]
    /\ UNCHANGED <<phase, redis, db, objs, nextId, clock, req, running, metrics, hist>>

\* another writer leaves a text under key that is no JSON document
Corrupt(key) ==
    /\ redis' = (key :> [val |-> Garbage, ttl |-> 0])
                    @@ [k \in DOMAIN redis \ {key} |-> redis[k]]
    /\ UNCHANGED <<phase, conn, db, objs, nextId, clock, req, running, metrics, hist, api>>

ApiHealthCheck(fault) ==
    Answer("health_check", Met(conn, fault # "ok", fault),
           HealthCheck(conn, redis, fault))

ApiGet(key, fault) ==
    Answer("get",
           IF fault # "ok" THEN Met(conn, TRUE, fault)
           ELSE Met(conn, key \in DOMAIN redis /\ ~redis[key].val.valid, "JSONDecodeError"),
           CacheGet(conn, redis, key, fault))

ApiSet(key, value, ttl, fault) ==
    Answer("set",
           IF ~Serializable(value) THEN Met(conn, TRUE, "TypeError")
           ELSE Met(conn, fault # "ok", fault),
           CacheSet(conn, redis, key, value, ttl, fault))

ApiDelete(key, fault) ==
    Answer("delete", Met(conn, fault # "ok", fault),
           CacheDelete(conn, redis, key, fault))

ApiExists(key, fault) ==
    Answer("exists", Met(conn, fault # "ok", fault),
           CacheExists(conn, redis, key, fault))

ClientNext ==
    \/ \E outcome \in ConnectOutcomes : ApiConnect(outcome)
    \/ ApiDisconnect
    \/ \E key \in ApiKeys : Corrupt(key)
    \/ \E fault \in Faults : ApiHealthCheck(fault)
    \/ \E key \in ApiKeys, fault \in Faults : ApiGet(key, fault)
    \/ \E key \in ApiKeys, value \in ApiValues, ttl \in ApiTtls, fault \in Faults :
           ApiSet(key, value, ttl, fault)
    \/ \E key \in ApiKeys, fault \in Faults : ApiDelete(key, fault)
    \/ \E key \in ApiKeys, fault \in Faults : ApiExists(key, fault)

ClientSpec == Init /\ [][ClientNext]_vars

----------------------------------------------------------------------------
(* Properties of the handlers *)

Done(r) == req[r].pc = "done"

\* the answer body is the entity the dict item holds
Shows(body, item) == ResponseValid(item) /\ body = ItemResponse(item)

\* the page of a list answer is the store's: its entities in insertion
\* order, cut at [(page - 1) * page_size, page * page_size)
PageOfStore(q) ==
    LET first == (q.arg.page - 1) * q.arg.page_size
        n == IF Len(db) > first THEN Min(q.arg.page_size, Len(db) - first) ELSE 0
    IN  /\ q.body.total = Len(db)
        /\ Len(q.body.items) = n
        /\ \A i \in 1..n : Shows(q.body.items[i], objs[db[first + i]])

\* C1: in a run in which no cache call has worked (every get came back
\* absent, every set and delete false), each answered Create, Read, Update,
\* Delete and List succeeded, or is NotFound exactly when the id was not in
\* the store, and the entity or page answered is the store's
C1_CacheFailureTolerance ==
    \A r \in Reqs : (Done(r) /\ ~hist.ok) =>
        LET q == req[r] IN
        CASE q.op = "create" ->
                 q.status = 201 /\ InDb(q.id) /\ Shows(q.body, objs[q.id])
          [] q.op \in {"get", "update"} ->
                 IF q.found
                 THEN q.status = 200 /\ InDb(q.id) /\ Shows(q.body, objs[q.id])
                 ELSE q.status = 404
          [] q.op = "delete" ->
                 IF q.found THEN q.status = 204 /\ ~InDb(q.id) ELSE q.status = 404
          [] q.op = "list" -> q.status = 200 /\ PageOfStore(q)

\* C3: with each cache call free to work or fail, every Read answered 200
\* carries the entity the store holds under the id at that time
C3_ReadIsStoreValue ==
    \A r \in Reqs : (Done(r) /\ req[r].op = "get" /\ req[r].status = 200) =>
        InDb(req[r].id) /\ Shows(req[r].body, objs[req[r].id])

\* C4: when every cache call so far has worked and no request is in flight,
\* the entry under each item key is absent or is the serialization of the
\* entity the store holds under that id
C4_CacheAgreesWithStore ==
    (Quiet /\ ~hist.fail) =>
        \A item_id \in AllIds :
            _get_cache_key(item_id) \in DOMAIN redis =>
                /\ InDb(item_id)
                /\ redis[_get_cache_key(item_id)].val = JsonDumps(objs[item_id])

\* C5: a Read(id) entered after a Delete(id) has removed id from the store
\* and its delete of the item key has worked does not answer the entity
C5_NoReintroductionAfterInvalidation ==
    \A r \in Reqs :
        (Done(r) /\ req[r].op = "get" /\ "invalidated" \in req[r].seen) =>
            req[r].status # 200

\* C6: a Read(id) entered after a Delete(id) was answered 204 is answered
\* 404, whatever the Delete's cache calls did
C6_ReadAfterDeleteIsNotFound ==
    \A r \in Reqs :
        (Done(r) /\ req[r].op = "get" /\ "deleted" \in req[r].seen) =>
            req[r].status = 404

\* C7: when the cache's get for the item key returned a value V, the Read
\* answers V and has not looked at the store
C7_HitShortCircuit ==
    \A r \in Reqs :
        (Done(r) /\ req[r].op = "get" /\ req[r].cached # None) =>
            /\ req[r].status = 200
            /\ Shows(req[r].body, req[r].cached[1])
            /\ \A i \in 1..Len(req[r].calls) : req[r].calls[i].op # "db"

\* C8: a Read whose cache get missed answers 404 when the store lacks the id,
\* having made no cache set; when the store holds the id it has made exactly
\* one cache set, of the store's entity under the item key with the TTL, and
\* answers that entity
C8_ReadMissPath ==
    \A r \in Reqs :
        LET q == req[r]
            sets == {i \in 1..Len(q.calls) : q.calls[i].op = "set"}
        IN  (Done(r) /\ q.op = "get" /\ q.cached = None) =>
                IF ~q.found
                THEN q.status = 404 /\ sets = {}
                ELSE /\ Cardinality(sets) = 1
                     /\ \A i \in sets :
                            q.calls[i] = Call("set", _get_cache_key(q.id), CACHE_TTL, objs[q.id])
                     /\ q.status = 200
                     /\ Shows(q.body, objs[q.id])

\* the fields of a Create body F as ItemCreate documents them
FieldsOf(F) ==
    [name |-> F.name[1],
     description |-> IF "description" \in DOMAIN F THEN F.description ELSE None,
     price |-> F.price[1],
     quantity |-> IF "quantity" \in DOMAIN F THEN F.quantity[1] ELSE 0,
     tags |-> IF "tags" \in DOMAIN F THEN F.tags[1] ELSE <<>>]

\* C9: a Read of the id a Create just returned, entered right after it, is
\* answered 200 with the fields of the Create's body F (description null,
\* quantity 0, tags [] where F omits them) and the id, created_at and
\* updated_at the Create answered, whatever the cache calls did
C9_ReadAfterCreate ==
    \A r \in Reqs :
        (Done(r) /\ req[r].op = "get" /\ req[r].prev # <<>>) =>
            LET made == req[r].prev[1]
                body == req[r].body
            IN  /\ made.status = 201
                /\ req[r].status = 200
                /\ \A k \in OptionalFields : body[k] = FieldsOf(made.arg)[k]
                /\ body.id = made.body.id
                /\ body.created_at = made.body.created_at
                /\ body.updated_at = made.body.updated_at

\* C9 witness: such a Read, of an item created with every field given,
\* answered from the entry the Create wrote to the cache
C9_Witness ==
    \E r \in Reqs :
        /\ Done(r) /\ req[r].op = "get" /\ req[r].prev # <<>>
        /\ req[r].cached # None
        /\ "description" \in DOMAIN req[r].prev[1].arg
        /\ req[r].status = 200

\* C10: an Update(id, P) of an id in the store is answered 200; the stored
\* entity has the fields of P at P's values and every other field, id and
\* created_at as before the Update, and the answer shows that entity
C10_UpdateMerges ==
    \A r \in Reqs :
        LET q == req[r] IN
        (Done(r) /\ q.op = "update" /\ q.found) =>
            /\ \A k \in OptionalFields :
                   objs[q.id][k] = IF k \in DOMAIN q.arg THEN q.arg[k] ELSE q.before[k]
            /\ objs[q.id].id = q.before.id
            /\ objs[q.id].created_at = q.before.created_at
            /\ q.status = 200
            /\ Shows(q.body, objs[q.id])

----------------------------------------------------------------------------
(* What remains of C1, C7, C8 and C10 where every dict involved is one the *)
(* response model accepts: an Update that sends name as null stores a dict *)
(* ItemResponse rejects, and the handler that meets it answers 500.        *)

StoreValid == \A item_id \in DOMAIN objs : ResponseValid(objs[item_id])

\* C1, in the states whose stored dicts are all valid
C1_WhereItemsValid == StoreValid => C1_CacheFailureTolerance

\* C7, for a cached value the response model accepts
C7_WhereCachedValid ==
    \A r \in Reqs :
        (Done(r) /\ req[r].op = "get" /\ req[r].cached # None
              /\ ResponseValid(req[r].cached[1])) =>
            /\ req[r].status = 200
            /\ Shows(req[r].body, req[r].cached[1])
            /\ \A i \in 1..Len(req[r].calls) : req[r].calls[i].op # "db"

\* C8, in the states whose stored dicts are all valid
C8_WhereItemsValid == StoreValid => C8_ReadMissPath

\* C10, in the states whose stored dicts are all valid
C10_WhereItemsValid == StoreValid => C10_UpdateMerges

----------------------------------------------------------------------------
(* C2 *)

\* C2: every CacheService operation (get, set, delete, exists, health_check)
\* returns to its caller whatever happens underneath: it raises nothing, and
\* when the client is missing or the command or the (de)serialization failed
\* the value returned is absent (get) or false (the others)
C2_OperationsTotal ==
    /\ api.raised = "none"
    /\ (api.op = "get" /\ (~api.client \/ api.met # "none")) => api.value = None
    /\ (api.op \in {"set", "delete", "exists", "health_check"}
            /\ (~api.client \/ api.met # "none")) => api.value = FALSE

\* C2 witness: a get on a connected client met an undecodable stored value
\* and returned absent
C2_Witness ==
    /\ api.op = "get"
    /\ api.client
    /\ api.met = "JSONDecodeError"
    /\ api.raised = "none"

----------------------------------------------------------------------------
(* Requests on ids the store lacks *)

\* the step is the entry of a request of kind op into slot r
EntersAs(r, op) ==
    /\ CanStart(r)
    /\ hist'.ops = hist.ops + 1
    /\ req'[r].op = op

\* no key of _items_db is item_id
Absent(item_id) == \A i \in 1..Len(db) : db[i] # item_id

\* the step changes neither the store nor the cache
StoreAndCacheKept == db' = db /\ objs' = objs /\ redis' = redis

\* C11: an Update(id, P) of an id the store lacks is answered 404 at once,
\* whatever the cache holds under the item key: it makes no cache call and
\* changes neither the store nor the cache
C11_UpdateOfAbsentId ==
    [][\A r \in Reqs :
          (EntersAs(r, "update") /\ Absent(req'[r].id)) =>
              /\ req'[r].pc = "done"
              /\ req'[r].status = 404
              /\ req'[r].calls = <<>>
              /\ StoreAndCacheKept]_vars

\* C11 witness: an Update answered 404 for an id the store lacks while the
\* cache holds an entry under its item key
C11_Witness ==
    \E r \in Reqs :
        /\ Done(r) /\ req[r].op = "update" /\ req[r].status = 404
        /\ Absent(req[r].id)
        /\ _get_cache_key(req[r].id) \in DOMAIN redis

\* C12: a Delete(id) of an id the store lacks is answered 404 and changes
\* neither the store nor the cache; a Delete of an id the store holds is
\* answered 204 whatever its cache calls do, and an id whose Delete was
\* answered 204 is lacking when the next Delete of it enters
C12_DeleteAtTheBoundary ==
    /\ [](\A r \in Reqs :
            (Done(r) /\ req[r].op = "delete") =>
                req[r].status = IF req[r].found THEN 204 ELSE 404)
    /\ [][\A r \in Reqs :
            EntersAs(r, "delete") =>
                /\ req'[r].id \in hist.deleted => Absent(req'[r].id)
                /\ Absent(req'[r].id) =>
                       /\ req'[r].pc = "done"
                       /\ req'[r].status = 404
                       /\ req'[r].calls = <<>>
                       /\ StoreAndCacheKept]_vars

\* C12 witness: a Delete answered 404 for an id an earlier Delete removed
\* with 204
C12_Witness ==
    \E r \in Reqs :
        /\ Done(r) /\ req[r].op = "delete" /\ req[r].status = 404
        /\ "deleted" \in req[r].seen

----------------------------------------------------------------------------
(* list_items on its own: every store content of up to MaxListed items,    *)
(* every page and page size of the bounds                                  *)

MaxListed == 5
MaxListPage == 3
MaxListPageSize == 3

\* a stored dict as a Create leaves it, and as an Update sending name as
\* null leaves it
ListedShapes ==
    {"created", "name_nulled"}

Listed(i, shape) ==
    LET made == NewItem(Uuid(i), [name |-> Just("A"), price |-> Just(1)], 1)
    IN  IF shape = "created" THEN made ELSE Merged(made, [name |-> None], 1)

ListInit ==
    /\ phase = "serving"
    /\ conn = [instance |-> 1, made |-> 1, client |-> FALSE, pool |-> FALSE]
    /\ redis = NoEntries
    /\ \E n \in 0..MaxListed : \E shapes \in [1..n -> ListedShapes] :
          /\ db = [i \in 1..n |-> Uuid(i)]
          /\ objs = [item_id \in {Uuid(i) : i \in 1..n} |->
                       LET i == CHOOSE j \in 1..n : Uuid(j) = item_id
                       IN  Listed(i, shapes[i])]
          /\ nextId = n + 1
    /\ clock = 1
    /\ req = [r \in Reqs |-> Idle]
    /\ running = 0
    /\ metrics = [hits |-> 0, misses |-> 0, created |-> 0, deleted |-> 0,
                  requests |-> NoEntries, latency |-> NoEntries,
                  in_progress |-> NoEntries]
    /\ hist = [ok |-> FALSE, fail |-> FALSE, invalidated |-> {},
               deleted |-> {}, ops |-> 0]
    /\ api = [op |-> "none", client |-> FALSE, met |-> "none",
              raised |-> "none", value |-> FALSE]

ListNext ==
    \E r \in Reqs, page \in 1..MaxListPage, page_size \in 1..MaxListPageSize :
        ListItems(r, page, page_size)

ListSpec == ListInit /\ [][ListNext]_vars

\* ceil(n / d), for d > 0
CeilDiv(n, d) == CHOOSE k \in 0..n : k * d >= n /\ (k = 0 \/ (k - 1) * d < n)

\* C13: a List of page and page_size over a store of n items is answered
\* 200 with total = n, total_pages = ceil(n / page_size) (1 when n = 0) and
\* the items at positions [(page - 1) * page_size, page * page_size) of the
\* creation order, none for a page beyond the last; and the pages
\* 1..total_pages of that size hold every item exactly once
C13_Pagination ==
    \A r \in Reqs :
        (Done(r) /\ req[r].op = "list") =>
            LET q == req[r]
                n == Len(db)
                size == q.arg.page_size
                pages == IF n = 0 THEN 1 ELSE CeilDiv(n, size)
                PageKeys(k) == Slice(db, (k - 1) * size, k * size)
            IN  /\ q.status = 200
                /\ PageOfStore(q)
                /\ q.body.total_pages = pages
                /\ q.body.page = q.arg.page
                /\ q.body.page_size = size
                /\ q.arg.page > pages => q.body.items = <<>>
                /\ \A j \in 1..n :
                       Cardinality({km \in (1..pages) \X (1..size) :
                                       /\ km[2] <= Len(PageKeys(km[1]))
                                       /\ PageKeys(km[1])[km[2]] = db[j]}) = 1

\* C13, in the states whose stored dicts are all valid
C13_WhereItemsValid == StoreValid => C13_Pagination

----------------------------------------------------------------------------
(* Order of the store write and the cache calls within a mutation *)

Mutations == {"create", "update", "delete"}

\* the cache calls of a mutation that found its id, in the order of the code
MutationCalls(q) ==
    IF q.op = "delete"
    THEN <<Call("delete", _get_cache_key(q.id), 0, <<>>),
           Call("delete", ITEMS_LIST_KEY, 0, <<>>)>>
    ELSE <<Call("set", _get_cache_key(q.id), CACHE_TTL, q.snap),
           Call("delete", ITEMS_LIST_KEY, 0, <<>>)>>

IsPrefix(s, t) == Len(s) <= Len(t) /\ \A i \in 1..Len(s) : s[i] = t[i]

\* item_id is a key of _items_db after the step
HeldNext(item_id) == \E i \in 1..Len(db') : db'[i] = item_id

\* the store write of the mutation entering slot r is done by the end of
\* the step
StoreWritten(r) ==
    LET q == req'[r] IN
    CASE q.op = "create" ->
             Absent(q.id) /\ HeldNext(q.id) /\ objs'[q.id] = q.snap
      [] q.op = "update" ->
             /\ HeldNext(q.id)
             /\ objs'[q.id] = q.snap
             /\ \A k \in DOMAIN q.arg : objs'[q.id][k] = q.arg[k]
      [] q.op = "delete" -> ~Absent(q.id) /\ ~HeldNext(q.id)

\* C14: the cache calls of a Create or Update are the item key's set, then
\* the list key's delete, those of a Delete the item key's delete, then the
\* list key's delete; the step in which a mutation issues its first cache
\* call has done its store write and has not touched the cache
C14_OrderWithinMutation ==
    /\ [](\A r \in Reqs :
            req[r].op \in Mutations => IsPrefix(req[r].calls, MutationCalls(req[r])))
    /\ [][\A r \in Reqs : \A op \in Mutations :
            (EntersAs(r, op) /\ req'[r].calls # <<>>) =>
                /\ StoreWritten(r)
                /\ Len(req'[r].calls) = 1
                /\ redis' = redis]_vars

\* C14 witness: an Update answered 200 after its two cache calls, the set
\* and then the list key's delete
C14_Witness ==
    \E r \in Reqs :
        /\ Done(r) /\ req[r].op = "update" /\ req[r].found
        /\ req[r].calls = MutationCalls(req[r])
        /\ req[r].status = 200

----------------------------------------------------------------------------
(* Interleaved updates of one id *)

\* slot r holds an Update of item_id that has merged and is suspended at one
\* of its cache calls, and the stored dict is still the one it left
MergedAndSuspended(r, item_id) ==
    /\ req[r].op = "update"
    /\ req[r].id = item_id
    /\ req[r].pc \in {"update_set", "update_del"}
    /\ objs[item_id] = req[r].snap

\* C15: a handler resumed after a cache call writes nothing to the store;
\* and when an Update(id, P2) enters while an Update(id, P1) is suspended
\* after its merge, the stored dict then has P2's fields at P2's values,
\* the fields of P1 alone at P1's values and every other field as it was
\* before the first of the two
C15_NoLostUpdate ==
    [][/\ hist'.ops = hist.ops => (db' = db /\ objs' = objs)
       /\ \A r1 \in Reqs : \A r2 \in Reqs \ {r1} :
             (/\ EntersAs(r2, "update")
              /\ ~Absent(req'[r2].id)
              /\ MergedAndSuspended(r1, req'[r2].id)) =>
                 \A k \in OptionalFields :
                     objs'[req[r1].id][k] =
                         IF k \in DOMAIN req'[r2].arg THEN req'[r2].arg[k]
                         ELSE IF k \in DOMAIN req[r1].arg THEN req[r1].arg[k]
                         ELSE req[r1].before[k]]_vars

\* C15 witness: two Updates of one id that set different fields, the second
\* merged on the dict the first left while the first was still suspended
C15_Witness ==
    \E r1 \in Reqs : \E r2 \in Reqs \ {r1} :
        /\ req[r1].op = "update" /\ req[r2].op = "update"
        /\ req[r1].id = req[r2].id
        /\ req[r1].pc \in {"update_set", "update_del"}
        /\ req[r2].pc \in {"update_set", "update_del"}
        /\ req[r2].before = req[r1].snap
        /\ DOMAIN req[r1].arg \cap DOMAIN req[r2].arg = {}
        /\ objs[req[r2].id] = req[r2].snap

----------------------------------------------------------------------------
(* Cache calls per request *)

\* how many times request q has called the cache method op on key
Issued(q, op, key) ==
    Cardinality({i \in 1..Len(q.calls) : q.calls[i].op = op /\ q.calls[i].key = key})

\* how many cache calls request q has made
CacheCalls(q) == Cardinality({i \in 1..Len(q.calls) : q.calls[i].op # "db"})

\* C16: whatever its cache calls returned, a Create has made at most one
\* set and one delete of the list key, a Read one get and at most one set,
\* an Update at most one set and one delete of the list key, a Delete at
\* most one delete of the item key and one of the list key, and none of
\* them any other cache call; a List makes none
C16_NoRetries ==
    \A r \in Reqs :
        LET q == req[r]
            key == _get_cache_key(q.id)
            sets == Issued(q, "set", key)
            gets == Issued(q, "get", key)
            dels == Issued(q, "delete", key)
            lists == Issued(q, "delete", ITEMS_LIST_KEY)
        IN  CASE q.op \in {"create", "update"} ->
                     sets <= 1 /\ lists <= 1 /\ CacheCalls(q) = sets + lists
              [] q.op = "get" ->
                     gets = 1 /\ sets <= 1 /\ CacheCalls(q) = gets + sets
              [] q.op = "delete" ->
                     dels <= 1 /\ lists <= 1 /\ CacheCalls(q) = dels + lists
              [] OTHER -> CacheCalls(q) = 0

\* C16 witness: a Read answered after its get and its set both failed on a
\* connected client, in a run in which no cache call has worked
C16_Witness ==
    \E r \in Reqs :
        /\ Done(r) /\ req[r].op = "get" /\ req[r].status = 200
        /\ conn.client /\ ~hist.ok /\ hist.fail
        /\ Issued(req[r], "get", _get_cache_key(req[r].id)) = 1
        /\ Issued(req[r], "set", _get_cache_key(req[r].id)) = 1

----------------------------------------------------------------------------
(* Progress: the pool is built with socket_timeout and                     *)
(* socket_connect_timeout (CacheService.connect), so a command sent to a   *)
(* store that does not answer ends with TimeoutError; the event loop runs  *)
(* every handler whose cache call has ended                                *)

MaxLiveOps == 2

\* interleaved requests, MaxLiveOps of them
LiveNext ==
    \/ \E r \in Reqs : Enter(r) /\ hist.ops < MaxLiveOps /\ nextId' <= MaxRaceIds + 1
    \/ \E r \in Reqs : Resume(r)
    \/ Environment

LiveSpec == Init /\ [][LiveNext]_vars /\ \A r \in Reqs : WF_vars(Resume(r))

InFlight(r) == req[r].pc \notin {"idle", "done"}

\* every method, on a connected client whose command timed out, returns its
\* failure value and raises nothing
TimeoutIsFailure ==
    LET c == [client |-> TRUE, pool |-> TRUE] IN
    \A key \in ApiKeys :
        /\ CacheGet(c, redis, key, "TimeoutError") = Returned(None, redis)
        /\ CacheDelete(c, redis, key, "TimeoutError") = Returned(FALSE, redis)
        /\ CacheExists(c, redis, key, "TimeoutError") = Returned(FALSE, redis)
        /\ \A value \in ApiValues :
               CacheSet(c, redis, key, value, CACHE_TTL, "TimeoutError")
                   = Returned(FALSE, redis)

\* C17: a cache call whose command times out returns absent / false, and
\* every request in flight is eventually answered, whatever the store does
C17_CallsNeverPending ==
    /\ []TimeoutIsFailure
    /\ \A r \in Reqs : InFlight(r) ~> ~InFlight(r)

\* C17 witness: an Update answered 200 on a connected client in a run in
\* which every cache call has failed
C17_Witness ==
    \E r \in Reqs :
        /\ Done(r) /\ req[r].op = "update" /\ req[r].status = 200
        /\ conn.client /\ ~hist.ok /\ hist.fail
        /\ Len(req[r].calls) = 2

----------------------------------------------------------------------------
(* The probes of app/api/health.py *)

HEALTHY == "healthy"
UNHEALTHY == "unhealthy"
DEGRADED == "degraded"

\* (a cache that the readiness probe requires)
RedisRequiredTrue == TRUE

\* "required" of checks["redis"]
RedisRequired == FALSE

\* (a readiness probe that catches RedisError alone)
ReadinessHandledRedisOnly == {"RedisError"}

\* the except clause of readiness
ReadinessHandled == {"Exception"}

\* (a liveness probe that reports degraded)
LivenessAnswerDegraded == [status |-> DEGRADED]

\* the body liveness returns
LivenessAnswer == [status |-> HEALTHY]

\* what the probe may meet: get_cache_service returning or raising, and the
\* ping done, failing with a RedisError, or health_check raising otherwise
Obtained == {"ok", "Exception"}
ProbeFaults == Faults \cup {"Exception"}

\* the try block of readiness: what cache.health_check() hands back
ReadinessTry(obtain, c, store, fault) ==
    IF obtain # "ok"
    THEN [raised |-> obtain, value |-> FALSE, store |-> store]
    ELSE HealthCheck(c, store, fault)

\* checks, after the try / except
ReadinessChecks(res) ==
    IF res.raised = "none"
    THEN [redis |-> [status |-> IF res.value THEN HEALTHY ELSE UNHEALTHY,
                     required |-> RedisRequired]]
    ELSE [redis |-> [status |-> UNHEALTHY, error |-> res.raised,
                     required |-> RedisRequired]]

\* the status code and the body readiness returns for checks
ReadinessAnswer(checks) ==
    LET required_unhealthy ==
            \E name \in DOMAIN checks :
                checks[name].required /\ checks[name].status = UNHEALTHY
        any_unhealthy ==
            \E name \in DOMAIN checks : checks[name].status = UNHEALTHY
    IN  [code |-> IF required_unhealthy THEN 503 ELSE 200,
         body |-> [status |-> IF required_unhealthy THEN UNHEALTHY
                              ELSE IF any_unhealthy THEN DEGRADED
                              ELSE HEALTHY,
                   checks |-> checks]]

\* GET /readyz
Readiness(r, obtain, fault) ==
    /\ CanStart(r)
    /\ LET res == ReadinessTry(obtain, conn, redis, fault)
           q == [Begin(r, "readyz", "", <<>>) EXCEPT
                    !.cached = <<res.raised, res.value>>,
                    !.calls = IF obtain = "ok"
                              THEN <<Call("health_check", "", 0, <<>>)>> ELSE <<>>]
           answer == ReadinessAnswer(ReadinessChecks(res))
       IN  req' = Entered(r,
               IF res.raised = "none" \/ Superclasses(res.raised) \cap ReadinessHandled # {}
               THEN [q EXCEPT !.pc = "done", !.status = answer.code, !.body = answer.body]
               ELSE Fail(q, 500))
    /\ hist' = [hist EXCEPT !.ops = @ + 1]
    /\ conn' = IF obtain = "ok" THEN get_cache_service(conn) ELSE conn
    /\ UNCHANGED <<phase, redis, db, objs, nextId, clock, running, metrics, api>>

\* GET /healthz
Liveness(r) ==
    /\ CanStart(r)
    /\ req' = Entered(r, [Begin(r, "healthz", "", <<>>) EXCEPT
                             !.pc = "done", !.status = 200, !.body = LivenessAnswer])
    /\ hist' = [hist EXCEPT !.ops = @ + 1]
    /\ UNCHANGED <<phase, conn, redis, db, objs, nextId, clock, running, metrics, api>>

\* the application, one item request at a time, probed whenever the event
\* loop is free
ProbeNext ==
    \/ \E r \in Reqs : Quiet /\ Enter(r)
    \/ \E r \in Reqs : Resume(r)
    \/ Environment
    \/ \E r \in Reqs, obtain \in Obtained, fault \in ProbeFaults :
           Readiness(r, obtain, fault)
    \/ \E r \in Reqs : Liveness(r)

ProbeSpec == Init /\ [][ProbeNext]_vars

C19_ReadinessAbsorbsExceptions ==
    \A r \in Reqs :
        (Done(r) /\ req[r].op = "readyz" /\ req[r].cached[1] # "none") =>
            /\ req[r].status = 200
            /\ req[r].body.status = "degraded"
            /\ req[r].body.checks.redis.status = "unhealthy"
            /\ "error" \in DOMAIN req[r].body.checks.redis

\* C19 witness: a /readyz answered after health_check raised on a connected
\* client
C19_Witness ==
    \E r \in Reqs :
        /\ Done(r) /\ req[r].op = "readyz" /\ conn.client
        /\ req[r].cached[1] = "Exception"
        /\ req[r].calls # <<>>
        /\ req[r].status = 200

\* C20: every /healthz is answered 200 with {"status": "healthy"} and has
\* made no cache call, whatever the client's state and the store's content
C20_Liveness ==
    \A r \in Reqs :
        (Done(r) /\ req[r].op = "healthz") =>
            /\ req[r].status = 200
            /\ req[r].body = [status |-> "healthy"]
            /\ req[r].calls = <<>>

\* C20 witness: a /healthz answered with no client connected and the store
\* holding an item
C20_Witness ==
    \E r \in Reqs :
        /\ Done(r) /\ req[r].op = "healthz" /\ req[r].status = 200
        /\ ~conn.client
        /\ db # <<>>

----------------------------------------------------------------------------
(* C21 *)

\* C21: health_check raises nothing and returns true exactly when the
\* client exists and its ping went through: it returns false on a client
\* never connected or disconnected, and whenever the ping met an error
C21_HealthCheck ==
    api.op = "health_check" =>
        /\ api.raised = "none"
        /\ api.value = (api.client /\ api.met = "none")
        /\ ~api.client => api.value = FALSE
        /\ api.met # "none" => api.value = FALSE

\* C21 witness: a health check on a client that holds no connection
\* returned false
C21_Witness ==
    /\ api.op = "health_check"
    /\ ~api.client
    /\ api.raised = "none"
    /\ api.value = FALSE

----------------------------------------------------------------------------
(* C22 *)

\* every entity the store or the cache holds satisfies the response model
CacheValid ==
    \A key \in DOMAIN redis :
        redis[key].val.valid => ResponseValid(JsonLoads(redis[key].val))

Sound == StoreValid /\ CacheValid

\* the step answers the request in slot r
Answers(r) == req'[r].pc = "done" /\ req'[r] # req[r]

\* C22: whatever init_cache met, the startup ends with the application
\* serving; the client's connection state is set at startup and no step of
\* the serving application changes it (connect is not called again); and
\* no request is answered 500 while the store and the cache hold only
\* entities the response model accepts, so none fails for want of a cache
C22_StartupToleratesCache ==
    /\ [](phase \in {"init", "serving"})
    /\ [][phase = "init" => phase' = "serving"]_vars
    /\ [][phase = "serving" => conn' = conn]_vars
    /\ [][\A r \in Reqs : (Answers(r) /\ Sound) => req'[r].status # 500]_vars

\* C22 witness: the startup could not build the client, the application
\* serves, and a Read of a created item was answered 200 from the store
C22_Witness ==
    /\ phase = "serving"
    /\ ~conn.client
    /\ \E r \in Reqs : /\ Done(r)
                        /\ req[r].op = "get"
                        /\ req[r].status = 200

----------------------------------------------------------------------------
(* C23 *)

NotConnected == [conn EXCEPT !.client = FALSE, !.pool = FALSE]

\* the step is a call of disconnect
Disconnects ==
    /\ api'.op = "disconnect"
    /\ api.op = "disconnect" =>
          (api'.client # api.client \/ api'.value # api.value)

\* C23: a disconnect raises nothing and leaves the client with no client
\* object and no pool, whatever it held; it closes each of the two at most
\* once and only if it was held; and a disconnect of a client that holds
\* nothing (never connected, or disconnected before) closes nothing and
\* changes nothing
C23_DisconnectIdempotent ==
    /\ [](api.op = "disconnect" =>
             /\ api.raised = "none"
             /\ api.value.released =
                    (IF api.client THEN <<"client">> ELSE <<>>)
                        \o (IF api.value.pool THEN <<"pool">> ELSE <<>>))
    /\ [][Disconnects => conn' = NotConnected]_vars
    /\ [][(Disconnects /\ conn = NotConnected) =>
             /\ conn' = conn
             /\ redis' = redis
             /\ api'.value.released = <<>>]_vars

\* C23 witness: a disconnect closed the client and the pool, and the
\* disconnect called right after it closed nothing and raised nothing
C23_Witness ==
    /\ api.op = "disconnect"
    /\ api.value.prior = <<"client", "pool">>
    /\ api.value.released = <<>>
    /\ api.raised = "none"
    /\ conn = NotConnected

----------------------------------------------------------------------------
(* Request validation: the models and Query constraints FastAPI applies    *)
(* before a handler is called                                              *)

\* names of 100 and of 101 characters
Name100 == "nnnnnnnnnnnnnnnnnnnnnnnnnnnnnnnnnnnnnnnnnnnnnnnnnnnnnnnnnnnnnnnnnnnnnnnnnnnnnnnnnnnnnnnnnnnnnnnnnnnn"
Name101 == "nnnnnnnnnnnnnnnnnnnnnnnnnnnnnnnnnnnnnnnnnnnnnnnnnnnnnnnnnnnnnnnnnnnnnnnnnnnnnnnnnnnnnnnnnnnnnnnnnnnnn"

\* request bodies of POST /items, as sent: the accepted ones, one with a
\* name of the greatest length allowed, and bodies the model rejects
CreateBodies ==
    CreateInputs \cup
    { [name |-> Just(Name100), price |-> Just(1)],
      [name |-> Just(Name101), price |-> Just(1)],
      [name |-> Just("A"), price |-> Just(0)],
      [name |-> Just("A"), price |-> Just(-1)],
      [name |-> Just("A")],
      [price |-> Just(1)],
      [name |-> None, price |-> Just(1)] }

\* query parameters of GET /items, as sent
ListPages == 0..MaxPage
ListPageSizes == {0, 1, MaxPageSize, 100, 101}

\* (a model whose price has no lower bound)
ItemCreateValidAnyPrice(B) ==
    /\ "name" \in DOMAIN B /\ B.name # None
    /\ Len(B.name[1]) >= 1 /\ Len(B.name[1]) <= 100
    /\ "price" \in DOMAIN B /\ B.price # None
    /\ "quantity" \in DOMAIN B => (B.quantity # None /\ B.quantity[1] >= 0)
    /\ "tags" \in DOMAIN B => B.tags # None

\* ItemCreate: name required, of 1 to 100 characters; price required and
\* greater than 0; description of at most 500 characters; quantity at
\* least 0
ItemCreateValid(B) ==
    /\ "name" \in DOMAIN B /\ B.name # None
    /\ Len(B.name[1]) >= 1 /\ Len(B.name[1]) <= 100
    /\ "price" \in DOMAIN B /\ B.price # None /\ B.price[1] > 0
    /\ "description" \in DOMAIN B =>
           (B.description = None \/ Len(B.description[1]) <= 500)
    /\ "quantity" \in DOMAIN B => (B.quantity # None /\ B.quantity[1] >= 0)
    /\ "tags" \in DOMAIN B => B.tags # None

\* list_items: page = Query(1, ge=1), page_size = Query(10, ge=1, le=100)
ListQueryValid(page, page_size) ==
    page >= 1 /\ page_size >= 1 /\ page_size <= 100

\* the 422 FastAPI answers without calling the handler
Reject(r, op, arg) ==
    /\ CanStart(r)
    /\ req' = Entered(r, Fail(Begin(r, op, "", arg), 422))
    /\ hist' = [hist EXCEPT !.ops = @ + 1]
    /\ UNCHANGED <<phase, conn, redis, db, objs, nextId, clock, running, metrics, api>>

CreateRequest(r, B) ==
    IF ItemCreateValid(B) THEN CreateStart(r, B) ELSE Reject(r, "create", B)

ListRequest(r, page, page_size) ==
    IF ListQueryValid(page, page_size)
    THEN ListItems(r, page, page_size)
    ELSE Reject(r, "list", [page |-> page, page_size |-> page_size])

\* one request at a time, Create and List with bodies and parameters as sent
ValidNext ==
    \/ \E r \in Reqs : Quiet /\ \E B \in CreateBodies : CreateRequest(r, B)
    \/ \E r \in Reqs : Quiet /\ \E page \in ListPages, page_size \in ListPageSizes :
                                   ListRequest(r, page, page_size)
    \/ \E r \in Reqs : Quiet /\ \E item_id \in AllIds : GetStart(r, item_id)
    \/ \E r \in Reqs : Quiet /\ \E item_id \in AllIds, P \in UpdateInputs :
                                   UpdateStart(r, item_id, P)
    \/ \E r \in Reqs : Quiet /\ \E item_id \in AllIds : DeleteStart(r, item_id)
    \/ \E r \in Reqs : Resume(r)
    \/ Environment

ValidSpec == Init /\ [][ValidNext]_vars

\* C24: a Create whose price is not above 0, whose name or price is
\* missing or whose name has more than 100 characters, and a List with
\* page below 1 or page_size above 100, is answered 422; and the step that
\* answers 422 leaves the store and the cache as they were, draws no id
\* and makes no cache call
C24_ValidationUpstream ==
    /\ [](\A r \in Reqs :
            (Done(r) /\ req[r].op = "create" /\
               (\/ "name" \notin DOMAIN req[r].arg
                \/ "price" \notin DOMAIN req[r].arg
                \/ (req[r].arg.price # None /\ req[r].arg.price[1] <= 0)
                \/ (req[r].arg.name # None /\ Len(req[r].arg.name[1]) > 100)))
            => req[r].status = 422)
    /\ [](\A r \in Reqs :
            (Done(r) /\ req[r].op = "list" /\
               (req[r].arg.page < 1 \/ req[r].arg.page_size > 100))
            => req[r].status = 422)
    /\ [][\A r \in Reqs :
            (Answers(r) /\ req'[r].status = 422) =>
                /\ db' = db /\ objs' = objs /\ redis' = redis
                /\ nextId' = nextId
                /\ req'[r].calls = <<>>]_vars

\* C24 witness: with an item in the store and its entry in the cache, a
\* Create with price 0 was answered 422
C24_Witness ==
    /\ db # <<>>
    /\ DOMAIN redis # {}
    /\ \E r \in Reqs : /\ Done(r)
                        /\ req[r].op = "create"
                        /\ req[r].status = 422
                        /\ "price" \in DOMAIN req[r].arg
                        /\ req[r].arg.price = Just(0)

----------------------------------------------------------------------------
(* C25 *)

\* C25: every entity is stored under its own id, no id is held twice and
\* every Create has drawn a new one; a step changes neither the id nor the
\* created_at of an entity that exists; the entity a Create adds has
\* updated_at = created_at = the time of the Create; and the Update of an
\* entity in the store leaves its updated_at at the time of the Update
C25_IdentityAndTimestamps ==
    /\ [](/\ \A item_id \in DOMAIN objs : objs[item_id].id = item_id
          /\ \A i \in 1..Len(db) : \A j \in 1..Len(db) : db[i] = db[j] => i = j
          /\ Cardinality(DOMAIN objs) = nextId - 1)
    /\ [][\A item_id \in DOMAIN objs :
            /\ item_id \in DOMAIN objs'
            /\ objs'[item_id].id = objs[item_id].id
            /\ objs'[item_id].created_at = objs[item_id].created_at]_vars
    /\ [][\A item_id \in DOMAIN objs' \ DOMAIN objs :
            /\ nextId' = nextId + 1
            /\ objs'[item_id].created_at = IsoFormat(clock')
            /\ objs'[item_id].updated_at = objs'[item_id].created_at]_vars
    /\ [][\A r \in Reqs :
            (EntersAs(r, "update") /\ InDb(req'[r].id)) =>
                objs'[req'[r].id].updated_at = IsoFormat(clock')]_vars

\* C25 witness: two entities exist and an Update of one of them, made
\* after the time of its Create, was answered 200
C25_Witness ==
    /\ Cardinality(DOMAIN objs) = 2
    /\ \E r \in Reqs : /\ Done(r)
                        /\ req[r].op = "update"
                        /\ req[r].status = 200
                        /\ objs[req[r].id].updated_at # objs[req[r].id].created_at

----------------------------------------------------------------------------
(* C26 *)

\* the step in which cache.get returns to the Read in slot r
GetReturns(r) == req[r].pc = "get_get" /\ req'[r].pc # "get_get"

\* what the claim says of one step: the hit and miss counters move only
\* when a Read's cache.get returns, then exactly one of them by one, the
\* hit counter iff a value came back; the created (deleted) counter moves
\* by one in the step that answers a Create 201 (a Delete 204) and in no
\* other step
MetricsStep ==
    /\ \A r \in Reqs : GetReturns(r) =>
          /\ metrics'.hits + metrics'.misses = metrics.hits + metrics.misses + 1
          /\ metrics'.hits >= metrics.hits /\ metrics'.misses >= metrics.misses
          /\ metrics'.hits = metrics.hits + 1 <=> req'[r].cached # None
    /\ (\A r \in Reqs : ~GetReturns(r)) =>
          (metrics'.hits = metrics.hits /\ metrics'.misses = metrics.misses)
    /\ metrics'.created = metrics.created +
          (IF \E r \in Reqs : /\ Answers(r) /\ req'[r].op = "create"
                               /\ req'[r].status = 201
           THEN 1 ELSE 0)
    /\ metrics'.deleted = metrics.deleted +
          (IF \E r \in Reqs : /\ Answers(r) /\ req'[r].op = "delete"
                               /\ req'[r].status = 204
           THEN 1 ELSE 0)

\* C26: every Read increments exactly one of the hit and miss counters,
\* the hit counter iff the cache returned a value; the created counter is
\* incremented once per Create that succeeds and the deleted counter once
\* per Delete that succeeds, and by nothing else
C26_MetricsHooks == [][MetricsStep]_vars

\* the same, over the steps that leave only entities the response model
\* accepts in the store
C26_WhereItemsValid == [][StoreValid' => MetricsStep]_vars

----------------------------------------------------------------------------
(* MetricsMiddleware (app/api/metrics.py): dispatch around call_next, whose *)
(* outcome is a response of the application or an exception of a handler   *)

MaxHttp == 3

ItemUrl(item_id) == "/api/v1/items/" \o item_id

\* app.routes, in the order of registration
Routes ==
    << [method |-> "GET", path |-> "/healthz"],
       [method |-> "GET", path |-> "/readyz"],
       [method |-> "GET", path |-> "/health"],
       [method |-> "GET", path |-> "/metrics"],
       [method |-> "POST", path |-> "/api/v1/items"],
       [method |-> "GET", path |-> "/api/v1/items"],
       [method |-> "GET", path |-> "/api/v1/items/{item_id}"],
       [method |-> "PUT", path |-> "/api/v1/items/{item_id}"],
       [method |-> "DELETE", path |-> "/api/v1/items/{item_id}"],
       [method |-> "GET", path |-> "/"] >>

\* route.matches(request.scope) == Match.FULL: the path fits, the method is
\* the route's
MatchFull(route, method, url) ==
    /\ route.method = method
    /\ IF route.path = "/api/v1/items/{item_id}"
       THEN \E item_id \in AllIds : url = ItemUrl(item_id)
       ELSE url = route.path

\* (a label taken from the URL as it came)
get_path_template_raw(method, url) == url

\* get_path_template: the path of the first route that matches in full,
\* the URL's path when none does
get_path_template(method, url) ==
    IF \E i \in 1..Len(Routes) : MatchFull(Routes[i], method, url)
    THEN LET i == CHOOSE j \in 1..Len(Routes) :
                     /\ MatchFull(Routes[j], method, url)
                     /\ \A l \in 1..(j - 1) : ~MatchFull(Routes[l], method, url)
         IN  Routes[i].path
    ELSE url

\* (every call of labels(...) starting a child of its own)
BumpFreshChild(f, label, d) == (label :> d) @@ f

\* labels(...).inc(), .dec() and .observe(): the child of the label moves
Bump(f, label, d) ==
    IF label \in DOMAIN f THEN [f EXCEPT ![label] = @ + d]
    ELSE (label :> d) @@ f

\* requests sent: to routes, to a path without a route, to a route's path
\* with a method it does not serve
HttpRequests ==
    { <<"GET", "/healthz">>, <<"GET", "/metrics">>, <<"POST", "/api/v1/items">>,
      <<"GET", ItemUrl(Uuid(1))>>, <<"GET", "/nope">>, <<"POST", ItemUrl(Uuid(1))>> }

\* what call_next does: returns a response, or raises the handler's exception
CallNextOutcomes ==
    { [raised |-> FALSE, status |-> s] : s \in {200, 201, 404, 422} }
        \cup { [raised |-> TRUE, status |-> 500] }

\* dispatch up to await call_next(request)
Dispatch(r, method, url) ==
    /\ CanStart(r)
    /\ hist.ops < MaxHttp
    /\ req' = Entered(r, [Begin(r, "http", url, [method |-> method, raised |-> FALSE])
                            EXCEPT !.pc = "call_next"])
    /\ metrics' =
          IF url = "/metrics" THEN metrics
          ELSE [metrics EXCEPT !.in_progress =
                   Bump(@, <<method, get_path_template(method, url)>>, 1)]
    /\ hist' = [hist EXCEPT !.ops = @ + 1]
    /\ UNCHANGED <<phase, conn, redis, db, objs, nextId, clock, running, api>>

\* call_next returns or raises; the except and finally clauses
CallNextDone(r, outcome) ==
    /\ CanResume(r, "call_next")
    /\ LET q == req[r]
           method == q.arg.method
           path == get_path_template(method, q.id)
           status_code == IF outcome.raised THEN 500 ELSE outcome.status
       IN  /\ req' = [req EXCEPT ![r] =
                        [Fail(q, status_code) EXCEPT !.arg.raised = outcome.raised]]
           /\ metrics' =
                 IF q.id = "/metrics" THEN metrics
                 ELSE [metrics EXCEPT
                         !.requests = Bump(@, <<method, path, status_code>>, 1),
                         !.latency = Bump(@, <<method, path>>, 1),
                         !.in_progress = Bump(@, <<method, path>>, -1)]
    /\ UNCHANGED <<phase, conn, redis, db, objs, nextId, clock, running, hist, api>>

HttpNext ==
    \/ \E outcome \in ConnectOutcomes : Startup(outcome)
    \/ \E r \in Reqs : \E h \in HttpRequests : Dispatch(r, h[1], h[2])
    \/ \E r \in Reqs : \E outcome \in CallNextOutcomes : CallNextDone(r, outcome)

HttpSpec == Init /\ [][HttpNext]_vars

\* C27: the step that ends a request to a path other than /metrics adds
\* one to http_requests_total under the request's method, the template of
\* the route serving it (the path itself when no route serves it) and its
\* final status code, 500 when the handler raised, and leaves every other
\* child of the counter as it was; no other step changes the counter; and
\* no step of a request to /metrics changes a counter, the histogram or
\* the gauge
C27_RequestMetrics ==
    /\ [][\A r \in Reqs :
            (Answers(r) /\ req'[r].op = "http" /\ req'[r].id # "/metrics") =>
                LET q == req'[r]
                    served == \E i \in 1..Len(Routes) :
                                  Routes[i].method = q.arg.method /\
                                  (Routes[i].path = q.id \/
                                   (Routes[i].path = "/api/v1/items/{item_id}" /\
                                    \E item_id \in AllIds : q.id = ItemUrl(item_id)))
                    endpoint == IF served /\ \E item_id \in AllIds : q.id = ItemUrl(item_id)
                                THEN "/api/v1/items/{item_id}" ELSE q.id
                    label == <<q.arg.method, endpoint, q.status>>
                    before == IF label \in DOMAIN metrics.requests
                              THEN metrics.requests[label] ELSE 0
                IN  /\ q.arg.raised => q.status = 500
                    /\ label \in DOMAIN metrics'.requests
                    /\ metrics'.requests[label] = before + 1
                    /\ \A k \in DOMAIN metrics'.requests \ {label} :
                          /\ k \in DOMAIN metrics.requests
                          /\ metrics'.requests[k] = metrics.requests[k]]_vars
    /\ [][(\A r \in Reqs : ~(Answers(r) /\ req'[r].op = "http"
                              /\ req'[r].id # "/metrics")) =>
            metrics'.requests = metrics.requests]_vars
    /\ [][\A r \in Reqs :
            (req'[r] # req[r] /\ req'[r].op = "http" /\ req'[r].id = "/metrics") =>
                metrics' = metrics]_vars

\* C27 witness: a GET of an item whose handler raised was counted once
\* under the route's template with status 500, a second request being
\* dispatched and nothing else counted
C27_Witness ==
    /\ \E r \in Reqs : /\ Done(r)
                        /\ req[r].op = "http"
                        /\ req[r].id = ItemUrl(Uuid(1))
                        /\ req[r].arg.raised
    /\ DOMAIN metrics.requests = {<<"GET", "/api/v1/items/{item_id}", 500>>}
    /\ metrics.requests[<<"GET", "/api/v1/items/{item_id}", 500>>] = 1
    /\ hist.ops = 2

----------------------------------------------------------------------------
(* C28 *)

\* C28: a List makes no cache call; the store never holds an entry under
\* the list key, and the only calls that name the key are deletes made by
\* Create, Update and Delete; and a List answers the page of the store as
\* it is at the call (or fails on an entity of the store it cannot show)
C28_ListNeverUsesCache ==
    /\ ITEMS_LIST_KEY \notin DOMAIN redis
    /\ \A r \in Reqs :
          /\ req[r].op = "list" => req[r].calls = <<>>
          /\ \A i \in 1..Len(req[r].calls) :
                req[r].calls[i].key = ITEMS_LIST_KEY =>
                    /\ req[r].calls[i].op = "delete"
                    /\ req[r].op \in Mutations
          /\ (Done(r) /\ req[r].op = "list") =>
                /\ req[r].status \in {200, 500}
                /\ req[r].status = 200 => PageOfStore(req[r])
                /\ req[r].status = 500 => ~StoreValid

\* C28 witness: with an entity in the cache, a List answered the store's
\* two entities on one page
C28_Witness ==
    /\ DOMAIN redis # {}
    /\ \E r \in Reqs : /\ Done(r)
                        /\ req[r].op = "list"
                        /\ req[r].status = 200
                        /\ req[r].body.total = 2
                        /\ Len(req[r].body.items) = 2

----------------------------------------------------------------------------
(* C29 *)

\* C29: every cache.set a Create, an Update or a Read's miss fill calls
\* names the key of the request's entity and a TTL of 3600 seconds, and
\* every entry the store holds expires after 3600 seconds
C29_EntityWritesCarryTtl ==
    /\ \A r \in Reqs : \A i \in 1..Len(req[r].calls) :
          req[r].calls[i].op = "set" =>
              /\ req[r].op \in {"create", "update", "get"}
              /\ req[r].calls[i].key = _get_cache_key(req[r].id)
              /\ req[r].calls[i].ttl = 3600
    /\ \A key \in DOMAIN redis : redis[key].ttl = 3600

\* C29 witness: a Read's miss fill has written the entry of its entity
C29_Witness ==
    \E r \in Reqs : /\ Done(r)
                    /\ req[r].op = "get"
                    /\ req[r].status = 200
                    /\ req[r].cached = None
                    /\ _get_cache_key(req[r].id) \in DOMAIN redis
                    /\ redis[_get_cache_key(req[r].id)].ttl = 3600
                    /\ hist.ok

----------------------------------------------------------------------------
(* C30 *)

\* C30 as stated: every cache call of a request names the key
\* "entity:<id>" of its entity or, for the invalidation of the list view,
\* the key "entities:list", and every entry of the store is under a key
\* "entity:<id>"
C30_KeyNamespacesAsStated ==
    /\ \A r \in Reqs : \A i \in 1..Len(req[r].calls) :
          LET c == req[r].calls[i] IN
          c.op # "db" =>
              \/ c.key = "entity:" \o req[r].id
              \/ c.key = "entities:list" /\ c.op = "delete"
    /\ \A key \in DOMAIN redis :
          \E item_id \in DOMAIN objs : key = "entity:" \o item_id

\* C30 with the keys of the source: every cache call of a request names
\* the key "item:<id>" of its entity or, for the invalidation of the list
\* view, the key "items:list"; every entry of the store is under the key
\* "item:<id>" of an entity that was created; every mutation that has made
\* all its calls has deleted "items:list"
C30_KeyNamespaces ==
    /\ \A r \in Reqs : \A i \in 1..Len(req[r].calls) :
          LET c == req[r].calls[i] IN
          c.op # "db" =>
              \/ c.key = "item:" \o req[r].id
              \/ c.key = "items:list" /\ c.op = "delete"
    /\ \A key \in DOMAIN redis :
          \E item_id \in DOMAIN objs : key = "item:" \o item_id
    /\ \A r \in Reqs :
          (Done(r) /\ req[r].op \in Mutations /\ req[r].status \in {200, 201, 204}) =>
              \E i \in 1..Len(req[r].calls) :
                  req[r].calls[i] = Call("delete", "items:list", 0, <<>>)

\* C30 witness: the store holds the entry "item:u1" of the first entity
\* and an Update of that entity has deleted "items:list"
C30_Witness ==
    /\ "item:u1" \in DOMAIN redis
    /\ \E r \in Reqs : /\ Done(r)
                        /\ req[r].op = "update"
                        /\ req[r].id = "u1"
                        /\ req[r].status = 200
                        /\ Len(req[r].calls) = 2
                        /\ req[r].calls[2].key = "items:list"

----------------------------------------------------------------------------
(* C32 *)

\* C32: every entity of the store has a name of at least one character, a
\* price above 0, a quantity of at least 0 and a sequence of tags, and no
\* Read or List is answered 500
C32_EntityValidity ==
    /\ \A i \in 1..Len(db) :
          LET item == objs[db[i]] IN
          /\ item.name # None /\ Len(item.name[1]) >= 1
          /\ item.price # None /\ item.price[1] > 0
          /\ item.quantity # None /\ item.quantity[1] >= 0
          /\ item.tags # None
    /\ \A r \in Reqs :
          (Done(r) /\ req[r].op \in {"get", "list"}) => req[r].status # 500

\* the same of the steps other than an Update that sends a field as null:
\* they keep the entities of the store valid
C32_WhereNoNullIsSent ==
    [][(/\ StoreValid
        /\ \A r \in Reqs :
              EntersAs(r, "update") =>
                  \A k \in DOMAIN req'[r].arg : req'[r].arg[k] # None)
       => StoreValid']_vars


----------------------------------------------------------------------------
(* C35 *)

\* C35: the in-progress gauge of every (method, endpoint) pair is the
\* number of requests of that pair, other than requests to /metrics, that
\* are between the middleware's inc() and its finally clause; it is never
\* negative; and the step that ends such a request, its handler having
\* returned or raised, takes one off the gauge of its pair and leaves the
\* gauge of every other pair as it was
C35_InProgressGauge ==
    /\ [](LET Endpoint(q) ==
                  IF /\ \E item_id \in AllIds : q.id = ItemUrl(item_id)
                     /\ q.arg.method \in {"GET", "PUT", "DELETE"}
                  THEN "/api/v1/items/{item_id}" ELSE q.id
              Gauge(label) ==
                  IF label \in DOMAIN metrics.in_progress
                  THEN metrics.in_progress[label] ELSE 0
              Pairs == UNION { { <<h[1], h[2]>>, <<h[1], "/api/v1/items/{item_id}">> } :
                                   h \in HttpRequests }
          IN  \A label \in Pairs \cup DOMAIN metrics.in_progress :
                  /\ Gauge(label) >= 0
                  /\ Gauge(label) =
                        Cardinality({ r \in Reqs :
                            /\ req[r].pc = "call_next"
                            /\ req[r].id # "/metrics"
                            /\ <<req[r].arg.method, Endpoint(req[r])>> = label }))
    /\ [][\A r \in Reqs :
            (Answers(r) /\ req'[r].op = "http" /\ req'[r].id # "/metrics") =>
                LET q == req'[r]
                    own == << q.arg.method,
                              IF /\ \E item_id \in AllIds : q.id = ItemUrl(item_id)
                                 /\ q.arg.method \in {"GET", "PUT", "DELETE"}
                              THEN "/api/v1/items/{item_id}" ELSE q.id >>
                IN  /\ own \in DOMAIN metrics.in_progress
                    /\ DOMAIN metrics'.in_progress = DOMAIN metrics.in_progress
                    /\ \A label \in DOMAIN metrics.in_progress :
                          metrics'.in_progress[label] =
                              metrics.in_progress[label]
                                  - (IF label = own THEN 1 ELSE 0)]_vars

\* C35 witness: a request whose handler raised has ended while another
\* request of the same pair is still inside the middleware, and the gauge
\* of the pair reads 1
C35_Witness ==
    \E r \in Reqs : \E s \in Reqs \ {r} :
        /\ Done(r) /\ req[r].op = "http" /\ req[r].arg.raised
        /\ req[r].id = ItemUrl(Uuid(1)) /\ req[r].arg.method = "GET"
        /\ req[s].pc = "call_next" /\ req[s].id = req[r].id
        /\ req[s].arg.method = "GET"
        /\ metrics.in_progress[<<"GET", "/api/v1/items/{item_id}">>] = 1



----------------------------------------------------------------------------
(* RequestIDMiddleware (app/middleware/request_id.py): dispatch around     *)
(* call_next. A slot's arg holds the incoming X-Request-ID header and the  *)
(* local request_id; its body holds the X-Request-ID header of the         *)
(* response the client receives, None when the response has none           *)

\* the X-Request-ID header of a request: not sent, sent empty, sent
IncomingIds == {None, Just(""), Just("abc"), Just("xyz")}

\* request.headers.get(HEADER_NAME) or str(uuid.uuid4())
RequestIdOf(header, fresh) ==
    IF header # None /\ header[1] # "" THEN header[1] ELSE fresh

\* dispatch up to await call_next(request)
RequestIdDispatch(r, header) ==
    /\ CanStart(r)
    /\ hist.ops < MaxHttp
    /\ req' = Entered(r, [Begin(r, "request_id", "/",
                                 [header |-> header,
                                  request_id |-> RequestIdOf(header, Uuid(hist.ops + 1)),
                                  raised |-> FALSE])
                            EXCEPT !.pc = "call_next"])
    /\ hist' = [hist EXCEPT !.ops = @ + 1]
    /\ UNCHANGED <<phase, conn, redis, db, objs, nextId, clock, running, metrics, api>>

\* call_next returns a response, which dispatch returns with the header
\* set; or call_next raises, dispatch ends there, and the client receives
\* the server's own 500 response
RequestIdCallNextDone(r, outcome) ==
    /\ CanResume(r, "call_next")
    /\ req[r].op = "request_id"
    /\ req' = [req EXCEPT ![r] =
                  [@ EXCEPT !.pc = "done",
                            !.status = IF outcome.raised THEN 500 ELSE outcome.status,
                            !.arg.raised = outcome.raised,
                            !.body = IF outcome.raised THEN None
                                     ELSE Just(req[r].arg.request_id)]]
    /\ UNCHANGED <<phase, conn, redis, db, objs, nextId, clock, running, metrics,
                   hist, api>>

RequestIdNext ==
    \/ \E outcome \in ConnectOutcomes : Startup(outcome)
    \/ \E r \in Reqs : \E header \in IncomingIds : RequestIdDispatch(r, header)
    \/ \E r \in Reqs : \E outcome \in CallNextOutcomes : RequestIdCallNextDone(r, outcome)

RequestIdSpec == Init /\ [][RequestIdNext]_vars

\* C31: the response of every request carries an X-Request-ID header; the
\* header is the request's own incoming X-Request-ID when that was sent and
\* not empty, and otherwise an identifier generated for this request, which
\* is no identifier of another request in flight
C31_RequestIdPropagation ==
    [][\A r \in Reqs :
          (Answers(r) /\ req'[r].op = "request_id") =>
              LET q == req'[r]
                  sent == q.arg.header # None /\ q.arg.header # Just("")
              IN  /\ q.body # None
                  /\ sent => q.body = q.arg.header
                  /\ ~sent =>
                        /\ q.body[1] \in {Uuid(n) : n \in 1..MaxHttp}
                        /\ \A s \in Reqs \ {r} :
                              req[s].pc = "call_next" =>
                                  req[s].arg.request_id # q.body[1]]_vars

\* the same of the responses that call_next returned
C31_WhereCallNextReturns ==
    [][\A r \in Reqs :
          (Answers(r) /\ req'[r].op = "request_id" /\ ~req'[r].arg.raised) =>
              LET q == req'[r]
                  sent == q.arg.header # None /\ q.arg.header # Just("")
              IN  /\ q.body # None
                  /\ sent => q.body = q.arg.header
                  /\ ~sent =>
                        /\ q.body[1] \in {Uuid(n) : n \in 1..MaxHttp}
                        /\ \A s \in Reqs \ {r} :
                              req[s].pc = "call_next" =>
                                  req[s].arg.request_id # q.body[1]]_vars



----------------------------------------------------------------------------
(* C33 *)

\* C33: the Entity an Update answers with shows, for every field of its
\* payload, the payload's value, and it is the Entity the Update handed to
\* the cache in its set call
C33_UpdateReturnsItsWrite ==
    [][\A r \in Reqs :
          (Answers(r) /\ req'[r].op = "update" /\ req'[r].status = 200) =>
              LET q == req'[r]
                  P == q.arg
              IN  /\ \A k \in DOMAIN P :
                        IF k = "description" THEN q.body[k] = P[k]
                        ELSE P[k] # None /\ q.body[k] = P[k][1]
                  /\ Len(q.calls) >= 1
                  /\ q.calls[1].op = "set"
                  /\ q.calls[1].key = _get_cache_key(q.id)
                  /\ ResponseValid(q.calls[1].val)
                  /\ ItemResponse(q.calls[1].val) = q.body]_vars



----------------------------------------------------------------------------
(* C34 *)

\* C34: whenever no request is in flight, items_created_total minus
\* items_deleted_total is the number of entities in the store
C34_CountersAgreeWithStore ==
    Quiet => metrics.created - metrics.deleted = Len(db)

\* C34 witness: no request is in flight, the one entity created has been
\* deleted by a request answered 204, a cache call having failed on the way
C34_Witness ==
    /\ Quiet
    /\ metrics.created = 1
    /\ metrics.deleted = 1
    /\ Len(db) = 0
    /\ hist.fail
    /\ \E r \in Reqs : Done(r) /\ req[r].op = "delete" /\ req[r].status = 204


----------------------------------------------------------------------------
(* C36 *)

\* C36: a connect that raises leaves the client with no client handle and
\* no pool
C36_FailedConnectLeavesNothing ==
    [][\A outcome \in ConnectOutcomes :
          (/\ conn' # conn
           /\ conn' = Connect(conn, outcome)
           /\ ConnectRaised(outcome) # "none") =>
              (~conn'.client /\ ~conn'.pool)]_vars

\* what does hold of a connect whose ping failed: the handle and the pool
\* assigned before the ping stay
C36_WherePingFailed ==
    [][conn' = Connect(conn, "ping_failed") => (conn'.client /\ conn'.pool)]_vars


----------------------------------------------------------------------------
(* The singleton's lifecycle (app/services/cache.py): close_cache and      *)
(* get_cache_service called while the handlers go on being called, as      *)
(* under a test client that has left the lifespan                          *)

MaxServices == 3

\* close_cache(), between two requests
CloseCache ==
    /\ phase = "serving"
    /\ Quiet
    /\ conn.made < MaxServices
    /\ conn' = close_cache(conn)
    /\ UNCHANGED <<phase, redis, db, objs, nextId, clock, req, running, metrics,
                   hist, api>>

\* get_cache_service(), by a caller other than a handler
GetCacheService ==
    /\ phase = "serving"
    /\ Quiet
    /\ conn' = get_cache_service(conn)
    /\ UNCHANGED <<phase, redis, db, objs, nextId, clock, req, running, metrics,
                   hist, api>>

LifecycleNext ==
    \/ SeqNext
    \/ CloseCache
    \/ GetCacheService

LifecycleSpec == Init /\ [][LifecycleNext]_vars

\* C37: the singleton refers to the same CacheService from its
\* construction until close_cache sets it to None; the CacheService
\* constructed after a close_cache is one never returned before and has
\* no client and no pool; while the client is missing no step of a request
\* reaches or changes the key-value store, a Read gets absent from the
\* cache, and no request is answered 500 while the store holds only
\* entities the response model accepts, a Read of an entity of the store
\* being answered 200 with that entity
C37_ServiceLifecycle ==
    /\ [](conn.instance <= conn.made)
    /\ [][conn'.made >= conn.made]_vars
    /\ [][(conn.instance # 0 /\ conn'.instance # conn.instance) =>
            (conn'.instance = 0 /\ ~conn'.client /\ ~conn'.pool)]_vars
    /\ [][(conn.instance = 0 /\ conn'.instance # 0) =>
            /\ conn'.instance > conn.made
            /\ phase = "serving" => (~conn'.client /\ ~conn'.pool)]_vars
    /\ [][\A r \in Reqs :
            (req'[r] # req[r] /\ ~conn'.client) =>
                /\ redis' = redis
                /\ hist'.ok = hist.ok
                /\ Answers(r) =>
                      /\ req'[r].cached = None
                      /\ StoreValid => req'[r].status # 500
                      /\ (StoreValid /\ req'[r].op = "get" /\ InDb(req'[r].id)) =>
                            /\ req'[r].status = 200
                            /\ req'[r].body = ItemResponse(objs[req'[r].id])]_vars

\* C37 witness: after a close_cache a Read made get_cache_service construct
\* the second CacheService, got absent from it although the key-value
\* store holds the entity's entry, and was answered 200 from the store
C37_Witness ==
    /\ conn.instance = 2
    /\ ~conn.client
    /\ \E r \in Reqs :
          /\ Done(r)
          /\ req[r].op = "get"
          /\ req[r].status = 200
          /\ req[r].cached = None
          /\ _get_cache_key(req[r].id) \in DOMAIN redis



----------------------------------------------------------------------------
(* C38 *)

\* C38: no step of a Read changes the Record Store, and the only change a
\* Read makes to the key-value store is at the key of the id it reads, made
\* by the step in which its cache set returns, which never ends the Read
\* in 404 (so a Read answered 404 has changed nothing); a List changes
\* neither the Record Store nor the key-value store and makes no cache call
C38_ReadFrame ==
    [][\A r \in Reqs :
          (req'[r] # req[r] /\ req'[r].op \in {"get", "list"}) =>
              /\ db' = db /\ objs' = objs /\ nextId' = nextId
              /\ req'[r].op = "list" =>
                    (redis' = redis /\ req'[r].calls = <<>>)
              /\ (req'[r].op = "get" /\ redis' # redis) =>
                    /\ req[r].pc = "get_set"
                    /\ req'[r].status # 404
                    /\ \A key \in (DOMAIN redis \cup DOMAIN redis')
                                    \ {"item:" \o req'[r].id} :
                          /\ key \in DOMAIN redis /\ key \in DOMAIN redis'
                          /\ redis'[key] = redis[key]]_vars

\* C38 witness: a Read answered 200 after a miss has written the entry of
\* its id while the entry of another id is in the key-value store
C38_Witness ==
    \E r \in Reqs :
        /\ Done(r)
        /\ req[r].op = "get"
        /\ req[r].status = 200
        /\ Len(req[r].calls) = 3
        /\ _get_cache_key(req[r].id) \in DOMAIN redis
        /\ \E item_id \in AllIds \ {req[r].id} : _get_cache_key(item_id) \in DOMAIN redis



----------------------------------------------------------------------------
(* Requests that name an identifier of the client's choosing: item_id is   *)
(* a path parameter of type str, any non-empty text without a slash        *)

ChosenIds == {"s:list"}

IsolationNext ==
    \/ SeqNext
    \/ \E r \in Reqs : \E item_id \in ChosenIds : Quiet /\ GetStart(r, item_id)
    \/ \E r \in Reqs : \E item_id \in ChosenIds : \E P \in UpdateInputs :
           Quiet /\ UpdateStart(r, item_id, P)
    \/ \E r \in Reqs : \E item_id \in ChosenIds : Quiet /\ DeleteStart(r, item_id)

IsolationSpec == Init /\ [][IsolationNext]_vars

\* C39: the cache calls of a Create, Read, Update or Delete of an id name
\* the entity key of that id, or are deletes of the list key; the entity
\* key of the id is not the list key, and is the entity key of no other
\* id; and no step of such a request changes the entry of another id
C39_KeyIsolation ==
    /\ [](\A r \in Reqs :
            req[r].op \in {"create", "get", "update", "delete"} =>
                /\ "item:" \o req[r].id # "items:list"
                /\ \A item_id \in (AllIds \cup ChosenIds) \ {req[r].id} :
                      "item:" \o item_id # "item:" \o req[r].id
                /\ \A i \in 1..Len(req[r].calls) :
                      LET c == req[r].calls[i] IN
                      c.op # "db" =>
                          \/ c.key = "item:" \o req[r].id /\ c.key # "items:list"
                          \/ c.key = "items:list" /\ c.op = "delete")
    /\ [][\A r \in Reqs :
            (req'[r] # req[r]
                /\ req'[r].op \in {"create", "get", "update", "delete"}) =>
                \A item_id \in (AllIds \cup ChosenIds) \ {req'[r].id} :
                    LET key == "item:" \o item_id IN
                    /\ key \in DOMAIN redis' <=> key \in DOMAIN redis
                    /\ key \in DOMAIN redis => redis'[key] = redis[key]]_vars

\* C39 witness: a Read of an identifier chosen to come near the list key
\* asked the cache for item:s:list and was answered 404, the entry of a
\* stored entity being in the key-value store
C39_Witness ==
    /\ "item:u1" \in DOMAIN redis
    /\ \E r \in Reqs : /\ Done(r)
                        /\ req[r].op = "get"
                        /\ req[r].id = "s:list"
                        /\ req[r].status = 404
                        /\ req[r].calls[1].key = "item:s:list"

====
